---- MODULE Spec2Model ----
(***************************************************************************)
(* meter: the interactive session (src/tui/app.rs, App::update), the       *)
(* SQLite store adapter (src/db.rs), the CLI commands (src/main.rs), the   *)
(* menu-bar companion (src/menubar.rs) and the invoice writer              *)
(* (src/invoice.rs), as one state machine.                                 *)
(*                                                                         *)
(* Time is a bounded integer clock `now`; one clock unit is 30 seconds.    *)
(* Option<T> is a sequence of length <= 1: None is <<>> and Some(x) is     *)
(* <<x>>.  A String is a sequence of characters.  A store call takes a     *)
(* fault point f: 0 is no fault, k > 0 makes the k-th SQL statement of the *)
(* call return Err.                                                        *)
(***************************************************************************)
EXTENDS Integers, Sequences, FiniteSets, TLC

\* ---------------------------------------------------------------- bounds
MaxTime == 4
MaxEntries == 2
MaxCycleTime == 10
MaxCycles == 3
MaxInvoices == 3
MaxHalfHours == 3
MaxDigits == 10

\* ------------------------------------------------------------- vocabulary
None == <<>>
Some(x) == <<x>>

\* The characters typed into the text buffers, and the strings they spell.
\* A buffer never grows beyond the strings of its field.
Chars == {"A", "B"}
WorkSession == <<"Work session">>
ProjectStrings == {<<>>} \cup {<<c>> : c \in Chars}
DescriptionStrings == {<<>>, WorkSession} \cup {<<c>> : c \in Chars}

\* A "%Y-%m-%d %H:%M" string is abbreviated to one character: the digit of
\* the local minute it names.  Junk is any character that spells no time.
Digits == <<"0", "1", "2", "3", "4", "5", "6", "7", "8", "9">>
Junk == "x"
LocalMinutes == 0 .. ((MaxTime \div 2) + 1)
TimeChars == {Digits[m + 1] : m \in LocalMinutes} \cup {Junk}
TimeStrings == {<<>>} \cup {<<c>> : c \in TimeChars}

\* The local time zone moves its clock forward by one minute at this UTC
\* minute, so the local minute of that number does not exist.
DstGap == {1}

\* One clock unit is half a minute
SecsPerUnit == 60 \div 2

Status(text, id) == Some([text |-> text, id |-> id])

VARIABLES
  now,                       \* Utc::now()
  db_entries,                \* table entries: a set of rows
  db_seq,                    \* AUTOINCREMENT sequence of table entries
  db_pomodoro,               \* table pomodoro_config: the row id = 1
  current_screen,
  active_entry,              \* App.active_entry (the mirror)
  project_input,
  description_input,
  input_mode,
  status_message,
  entries,                   \* App.entries
  show_only_unbilled,
  confirm_delete,
  editing_entry,
  edit_field,
  edit_project_input,
  edit_description_input,
  edit_start_input,
  edit_end_input,
  pomodoro_config,           \* App.pomodoro_config
  pomodoro_state,
  pomodoro_cycles_completed,
  pomodoro_interval_start,
  pomodoro_last_project,
  pomodoro_last_description,
  breaks_started,            \* history: the breaks begun since the cycle
                             \* counter was last reset
  pending,                   \* the follow-up update() returned, not yet handled
  last,                      \* the message (or outside operation) handled last;
                             \* "Key" for one that only edits a text buffer
  err,                       \* whether a store call of that handler returned Err
  menubar,                   \* menubar.rs: the locals of the menu-bar companion's
                             \* event loop, one field per `let mut`
  invoice,                   \* invoice.rs: the call of write_invoice under way:
                             \* its params and, once it returned, its result
  db_projects,               \* table projects: a set of rows
  db_invoices,               \* table invoices: a set of rows
  invoice_files,             \* history: the invoice numbers of the files
                             \* invoice_NNNN.pdf written, in order
  project_rates,             \* App.project_rates
  due,                       \* invoice.rs: the call of calculate_due_date under
                             \* way: its argument, the day Utc::now() is in
                             \* and, once it returned, its result
  projects,                  \* App.projects: the list of the Projects screen
  pomodoro_field,            \* the field in focus on the Pomodoro screen
  pomodoro_work_input,
  pomodoro_short_break_input,
  pomodoro_long_break_input,
  pomodoro_cycles_input,
  in_flight,                 \* generate_invoice and Commands::Invoice under way,
                             \* statement by statement: per process the number
                             \* read, the parameters, the rendering and the
                             \* outcome of the insert
  notified                   \* notification.rs: the notification the Tick
                             \* handled last asked for, None if it asked for
                             \* none

dbVars == <<db_entries, db_seq, db_pomodoro>>
timerVars == <<current_screen, active_entry, project_input, description_input,
               input_mode>>
listVars == <<entries, show_only_unbilled, confirm_delete>>
editVars == <<editing_entry, edit_field, edit_project_input,
              edit_description_input, edit_start_input, edit_end_input>>
pomoVars == <<pomodoro_config, pomodoro_state, pomodoro_cycles_completed,
              pomodoro_interval_start, pomodoro_last_project,
              pomodoro_last_description, breaks_started>>
appVars == <<timerVars, status_message, listVars, editVars, pomoVars>>
invoiceVars == <<invoice, db_invoices, invoice_files, project_rates, due,
                 in_flight>>
\* The Projects screen and the form of the Pomodoro screen
formVars == <<projects, pomodoro_field, pomodoro_work_input,
              pomodoro_short_break_input, pomodoro_long_break_input,
              pomodoro_cycles_input>>
\* The state the timer, list, edit and Pomodoro handlers leave alone
outsideVars == <<menubar, invoiceVars, db_projects, formVars, notified>>
pomodoroInputs == <<pomodoro_work_input, pomodoro_short_break_input,
                    pomodoro_long_break_input, pomodoro_cycles_input>>
vars == <<now, dbVars, appVars, pending, last, err, outsideVars>>

\* ------------------------------------------------------------------ store
\* models.rs: struct Entry
Entry(id, project, description, start, end, billed) ==
  [id |-> id, project |-> project, description |-> description,
   start |-> start, end |-> end, billed |-> billed]

\* models.rs: impl Default for PomodoroConfig, scaled down to fit the clock:
\* 45/15/60 minutes and 4 cycles become 1/1/2 minutes and 2 cycles.
DefaultPomodoroConfig ==
  [enabled |-> FALSE, work_duration |-> 1, short_break |-> 1, long_break |-> 2,
   cycles_before_long |-> 2]

\* A store that rejects the insert while a row lacks an end (not the code)
insert_unique(rows, seq, e) ==
  IF \E g \in rows : g.end = None THEN [rows |-> rows, seq |-> seq]
  ELSE [rows |-> rows \cup {[e EXCEPT !.id = seq + 1]}, seq |-> seq + 1]

\* Db::insert: the row gets the next AUTOINCREMENT id
insert(rows, seq, e) ==
  [rows |-> rows \cup {[e EXCEPT !.id = seq + 1]}, seq |-> seq + 1]

\* Db::get_active_entry: WHERE end IS NULL ORDER BY start DESC LIMIT 1.
\* The set of rows the query may return (rows with equal start are in no
\* defined order); {None} when no row lacks an end.
get_active_entry(rows) ==
  LET act == {e \in rows : e.end = None}
      top == {e \in act : \A g \in act : g.start <= e.start}
  IN IF act = {} THEN {None} ELSE {Some(e) : e \in top}

\* Db::start_timer: insert, then re-read the active entry.
\* f = 1: the INSERT fails; f = 2: the re-read fails after the INSERT.
start_timer(rows, seq, project, description, t, f) ==
  LET ins == insert(rows, seq, Entry(0, project, description, t, None, FALSE))
  IN IF f = 1 THEN [rows |-> rows, seq |-> seq, ok |-> FALSE]
     ELSE [rows |-> ins.rows, seq |-> ins.seq, ok |-> (f = 0)]

\* A stop that reports success and writes no end (not the code)
stop_active_timer_keep(rows, t, f) ==
  {[rows |-> rows, res |-> IF a = None THEN "None" ELSE "Some"]
     : a \in get_active_entry(rows)}

\* A stop that fails when no row lacks an end (not the code)
stop_active_timer_strict(rows, t, f) ==
  { IF a = None THEN [rows |-> rows, res |-> "Err"]
    ELSE [rows |-> (rows \ {a[1]}) \cup {[a[1] EXCEPT !.end = Some(t)]},
          res |-> "Some"]
    : a \in get_active_entry(rows) }

\* Db::stop_active_timer: get_active_entry, UPDATE end = now, get_entry_by_id.
\* f = 1: the first read fails; f = 2: the UPDATE fails; f = 3: the read-back
\* fails after the UPDATE.  res is "Err", "None" or "Some".
stop_active_timer(rows, t, f) ==
  IF f = 1 THEN {[rows |-> rows, res |-> "Err"]}
  ELSE { IF a = None THEN [rows |-> rows, res |-> "None"]
         ELSE IF f = 2 THEN [rows |-> rows, res |-> "Err"]
         ELSE [rows |-> (rows \ {a[1]}) \cup {[a[1] EXCEPT !.end = Some(t)]},
               res |-> IF f = 3 THEN "Err" ELSE "Some"]
         : a \in get_active_entry(rows) }

\* Db::list(billed): all rows, or the rows with that billed flag
list(rows, billed) ==
  IF billed = None THEN rows ELSE {e \in rows : e.billed = billed[1]}

\* A DELETE without its WHERE clause (not the code)
delete_all(rows, id) == [rows |-> {}, found |-> rows # {}]

\* Db::delete: the rows left, and whether a row was deleted
delete(rows, id) ==
  [rows |-> {e \in rows : e.id # id}, found |-> \E e \in rows : e.id = id]

\* Db::mark_billed
mark_billed(rows, id) ==
  {IF e.id = id THEN [e EXCEPT !.billed = TRUE] ELSE e : e \in rows}

\* Db::mark_all_billed: UPDATE entries SET billed = 1 WHERE billed = 0
mark_all_billed(rows) ==
  {IF ~e.billed THEN [e EXCEPT !.billed = TRUE] ELSE e : e \in rows}

\* Db::unmark_billed
unmark_billed(rows, id) ==
  {IF e.id = id THEN [e EXCEPT !.billed = FALSE] ELSE e : e \in rows}

\* Db::update_entry: UPDATE ... WHERE id = entry.id
update_entry(rows, entry) ==
  [rows |-> {IF e.id = entry.id THEN entry ELSE e : e \in rows},
   found |-> \E e \in rows : e.id = entry.id]

\* models.rs: struct Project (name is UNIQUE)
Project(name, rate) == [name |-> name, rate |-> rate]

\* Db::get_or_create_project: a row without a rate, unless the name has one
get_or_create_project(project_rows, name) ==
  IF \E p \in project_rows : p.name = name THEN project_rows
  ELSE project_rows \cup {Project(name, None)}

\* Db::sync_projects_from_entries: get_or_create_project for each distinct
\* project of table entries
sync_projects_from_entries(rows, project_rows) ==
  project_rows \cup {Project(n, None) :
                   n \in {e.project : e \in rows} \ {p.name : p \in project_rows}}

\* Db::set_project_rate
set_project_rate(project_rows, name, rate) ==
  {IF p.name = name THEN [p EXCEPT !.rate = rate] ELSE p
     : p \in get_or_create_project(project_rows, name)}

\* Db::list_by_date_range: the rows with an end in [start, end], of that
\* billed flag when one is given
list_by_date_range(rows, start, end, billed) ==
  {e \in rows : /\ e.end # None
                /\ e.end[1] >= start
                /\ e.end[1] <= end
                /\ (billed # None => e.billed = billed[1])}

\* Db::list_projects, as App::refresh_invoice_entries reads it: the rate of
\* each project that has one
list_projects(project_rows) ==
  [n \in {p.name : p \in {q \in project_rows : q.rate # None}} |->
     (CHOOSE p \in project_rows : p.name = n).rate[1]]

\* models.rs: struct Invoice
Invoice(invoice_number, subtotal, tax_rate, tax_amount, total) ==
  [invoice_number |-> invoice_number, subtotal |-> subtotal,
   tax_rate |-> tax_rate, tax_amount |-> tax_amount, total |-> total]

\* A numbering that starts over at 1 each time (not the code)
get_next_invoice_number_first(invoices) == 1

\* Db::get_next_invoice_number: SELECT COALESCE(MAX(invoice_number), 0) + 1
get_next_invoice_number(invoices) ==
  IF invoices = {} THEN 1
  ELSE (CHOOSE n \in {r.invoice_number : r \in invoices} :
          \A r \in invoices : r.invoice_number <= n) + 1

\* An INSERT that takes any row, as if invoice_number were not UNIQUE (not
\* the code)
record_invoice_any(invoices, inv, f) ==
  [rows |-> invoices \cup {inv}, ok |-> TRUE]

\* Db::record_invoice: the INSERT fails at fault point f = 1, and on a row
\* of the same invoice_number (UNIQUE)
record_invoice(invoices, inv, f) ==
  IF f = 1 \/ \E r \in invoices : r.invoice_number = inv.invoice_number
  THEN [rows |-> invoices, ok |-> FALSE]
  ELSE [rows |-> invoices \cup {inv}, ok |-> TRUE]

\* ---------------------------------------------------------------- session
\* A refresh that never sees the active entry (not the code)
refresh_active_timer_blind(rows, fr) == {None}

\* App::refresh_active_timer: db.get_active_entry().unwrap_or(None).
\* The mirrors the call may leave; fr = 1: the read fails.
refresh_active_timer(rows, fr) ==
  IF fr = 1 THEN {None} ELSE get_active_entry(rows)

\* App::refresh_entries: db.list(filter).unwrap_or_default()
refresh_entries(rows, unbilled_only) ==
  list(rows, IF unbilled_only THEN Some(FALSE) ELSE None)

\* App::is_long_break_next
is_long_break_next(cycles, cfg) == (cycles + 1) >= cfg.cycles_before_long

\* A break that is always short (not the code)
get_current_break_duration_short(cycles, cfg) == cfg.short_break

\* App::get_current_break_duration
get_current_break_duration(cycles, cfg) ==
  IF is_long_break_next(cycles, cfg) THEN cfg.long_break ELSE cfg.short_break

\* i32::MAX
I32Max == 2147483647

\* i32::to_string: the decimal digits, after a minus sign below zero
RECURSIVE to_string(_)
to_string(n) ==
  IF n < 0 THEN <<"-">> \o to_string(-n)
  ELSE IF n < 10 THEN <<Digits[n + 1]>>
  ELSE Append(to_string(n \div 10), Digits[(n % 10) + 1])

\* char::is_ascii_digit
is_ascii_digit(c) == \E d \in 0 .. 9 : Digits[d + 1] = c

\* char::to_digit(10) of a digit
to_digit(c) == CHOOSE d \in 0 .. 9 : Digits[d + 1] = c

\* The digits of buf read from the left onto acc, None when the value
\* leaves the i32 range
RECURSIVE parse_digits(_, _)
parse_digits(buf, acc) ==
  IF buf = <<>> THEN Some(acc)
  ELSE IF acc > (I32Max - to_digit(buf[1])) \div 10 THEN None
  ELSE parse_digits(Tail(buf), (acc * 10) + to_digit(buf[1]))

\* str::parse::<i32>().ok(): None for an empty buffer, a character that is
\* no digit (after an optional sign) or a value outside the i32 range
\* (i32::MIN itself is read as out of range here)
parse_i32(buf) ==
  LET signed == buf # <<>> /\ buf[1] \in {"+", "-"}
      digits == IF signed THEN Tail(buf) ELSE buf
  IN IF digits = <<>> \/ \E i \in DOMAIN digits : ~is_ascii_digit(digits[i])
     THEN None
     ELSE LET v == parse_digits(digits, 0)
          IN IF v = None THEN None
             ELSE IF signed /\ buf[1] = "-" THEN Some(-v[1]) ELSE v

\* String::pop
pop(str) == IF str = <<>> THEN <<>> ELSE SubSeq(str, 1, Len(str) - 1)

\* Local.from_utc_datetime(&t.naive_utc()).format("%Y-%m-%d %H:%M"): the
\* local minute of instant t, its seconds dropped
format_local(t) ==
  LET m == t \div 2
  IN <<Digits[m + Cardinality({g \in DstGap : g <= m}) + 1]>>

\* NaiveDateTime::parse_from_str(buf, "%Y-%m-%d %H:%M"): None on Err
parse_from_str(buf) ==
  IF Len(buf) = 1 /\ \E m \in LocalMinutes : Digits[m + 1] = buf[1]
  THEN Some(CHOOSE m \in LocalMinutes : Digits[m + 1] = buf[1])
  ELSE None

\* Local.from_local_datetime(&parsed).single().map(|dt| dt.with_timezone(&Utc)):
\* None for a local minute that does not exist
from_local_datetime(m) ==
  IF m \in DstGap THEN None
  ELSE Some((m - Cardinality({g \in DstGap : g < m})) * 2)

\* An elapsed time that counts a clock unit as a minute (not the code)
elapsed_secs_fast(t, start) == (t - start) * 60

\* An elapsed time that stays 0 (not the code)
elapsed_secs_stopped(t, start) == 0

\* (Utc::now() - interval_start).num_seconds()
elapsed_secs(t, start) == (t - start) * SecsPerUnit


\* ---------------------------------------------------------------- menu bar
Work == <<"Work">>

\* The orders in which ORDER BY start DESC may return the rows (rows with
\* equal start are in no defined order)
by_start_desc(rows) ==
  {s \in [1 .. Cardinality(rows) -> rows] :
     /\ \A i, j \in DOMAIN s : i # j => s[i] # s[j]
     /\ \A i, j \in DOMAIN s : i < j => s[i].start >= s[j].start}

RECURSIVE distinct_projects(_, _)
\* .filter(|e| seen.insert(e.project.clone())).map(|e| e.project.clone())
distinct_projects(s, seen) ==
  IF Len(s) = 0 THEN <<>>
  ELSE IF s[1].project \in seen THEN distinct_projects(Tail(s), seen)
  ELSE <<s[1].project>> \o distinct_projects(Tail(s), seen \cup {s[1].project})

\* menubar.rs: the recent projects, the first five distinct projects of
\* db.list(None); the set of lists the load may produce
recent_projects(rows) ==
  {LET d == distinct_projects(s, {})
   IN SubSeq(d, 1, IF Len(d) < 5 THEN Len(d) ELSE 5) : s \in by_start_desc(rows)}

\* menubar.rs: the locals of main after Event::NewEvents(StartCause::Init)
\* over the store as it is at process start; the set of records it may leave
MenubarInit(rows, cfg) ==
  {[current_entry |-> a,
    recent_projects |-> r,
    pomodoro_config |-> cfg,
    pomodoro_state |-> IF a # None /\ cfg.enabled THEN "Working" ELSE "Idle",
    pomodoro_interval_start |->
      IF a # None /\ cfg.enabled THEN Some(a[1].start) ELSE None,
    pomodoro_cycles_completed |-> 0,
    pomodoro_last_project |-> None,
    pomodoro_last_description |-> None]
   : a \in get_active_entry(rows), r \in recent_projects(rows)}

\* ------------------------------------------------------------------ invoice
\* One hour, in clock units
Hour == 3600 \div SecsPerUnit

\* An f64 amount of money is carried exactly, as a whole number of
\* 1/(Hour * 100) dollars, so an amount of hours * rate * tax is a whole
\* number: hours are a whole number of clock units / Hour and the tax rate is
\* percent / 100.
Money(dollars) == dollars * Hour * 100

\* invoice.rs: write_invoice, "Group entries by project": each project's
\* entries, in the order of params.entries
entries_by_project(es) ==
  [p \in {es[i].project : i \in DOMAIN es} |->
     SelectSeq(es, LAMBDA e : e.project = p)]

\* A project total that stops at the first entry without an end (not the
\* code)
RECURSIVE project_total_until_running(_)
project_total_until_running(proj_entries) ==
  IF proj_entries = <<>> \/ proj_entries[1].end = None THEN 0
  ELSE elapsed_secs(proj_entries[1].end[1], proj_entries[1].start)
         + project_total_until_running(Tail(proj_entries))

\* invoice.rs: write_invoice, the loop over proj_entries: project_total, in
\* seconds (hours * 3600); (end - entry.start).num_seconds() of each entry
\* that has an end
RECURSIVE project_total(_)
project_total(proj_entries) ==
  IF proj_entries = <<>> THEN 0
  ELSE (IF proj_entries[1].end # None
        THEN elapsed_secs(proj_entries[1].end[1], proj_entries[1].start)
        ELSE 0)
         + project_total(Tail(proj_entries))

\* invoice.rs: write_invoice, the loop over entries_by_project in the order
\* the HashMap yields its keys: the lines written and the subtotal
RECURSIVE line_items(_, _, _)
line_items(order, by_project, rates) ==
  IF order = <<>> THEN [lines |-> <<>>, subtotal |-> 0]
  ELSE LET project == order[1]
           secs == project_total(by_project[project])
           rate_info == IF project \in DOMAIN rates
                        THEN Some(rates[project]) ELSE None
           project_cost == IF rate_info # None
                           THEN Some((secs * rate_info[1] * 100) \div SecsPerUnit)
                           ELSE None
           rest == line_items(Tail(order), by_project, rates)
       IN [lines |-> <<[project |-> project, hours |-> secs,
                        cost |-> project_cost]>> \o rest.lines,
           subtotal |-> (IF project_cost # None THEN project_cost[1] ELSE 0)
                          + rest.subtotal]

\* The orders in which a HashMap may yield the keys of its map
key_orders(map) ==
  {o \in [1 .. Cardinality(DOMAIN map) -> DOMAIN map] :
     \A i, j \in DOMAIN o : i # j => o[i] # o[j]}

\* invoice.rs: write_invoice, the InvoiceResult and the lines of the document
write_invoice(params, order) ==
  LET items == line_items(order, entries_by_project(params.entries),
                          params.project_rates)
      tax_amount == (items.subtotal * params.tax_rate) \div 100
  IN [lines |-> items.lines,
      subtotal |-> items.subtotal,
      tax_amount |-> tax_amount,
      total |-> items.subtotal + tax_amount]

\* The two processes that generate invoices: the session and `meter invoice`
Processes == {"session", "shell"}

\* No generation under way in a process
NoGeneration ==
  [pc |-> "idle", invoice_number |-> 0,
   params |-> [entries |-> <<>>, project_rates |-> <<>>, tax_rate |-> 0],
   result |-> None, recorded |-> "none"]

\* No invoice was asked for
NoInvoice ==
  [params |-> [entries |-> <<>>, project_rates |-> <<>>, tax_rate |-> 0],
   result |-> None]

\* ---------------------------------------------------------------- due date
UpperCase == <<"A", "B", "C", "D", "E", "F", "G", "H", "I", "J", "K", "L", "M",
               "N", "O", "P", "Q", "R", "S", "T", "U", "V", "W", "X", "Y", "Z">>
LowerCase == <<"a", "b", "c", "d", "e", "f", "g", "h", "i", "j", "k", "l", "m",
               "n", "o", "p", "q", "r", "s", "t", "u", "v", "w", "x", "y", "z">>

\* A lowering that leaves the string as it is (not the code)
to_lowercase_keep(str) == str

\* str::to_lowercase
to_lowercase(str) ==
  [i \in DOMAIN str |->
     IF \E k \in DOMAIN UpperCase : UpperCase[k] = str[i]
     THEN LowerCase[CHOOSE k \in DOMAIN UpperCase : UpperCase[k] = str[i]]
     ELSE str[i]]

\* str::contains
contains(str, pat) ==
  \E i \in 0 .. (Len(str) - Len(pat)) : SubSeq(str, i + 1, i + Len(pat)) = pat

\* The days of the months of a year that is no leap year
MonthDays == <<31, 28, 31, 30, 31, 30, 31, 31, 30, 31, 30, 31>>

RECURSIVE days_before(_)
\* The days of the year before month m
days_before(m) == IF m = 1 THEN 0 ELSE days_before(m - 1) + MonthDays[m - 1]

\* date.format("%Y-%m-%d") of the day d days after 2026-01-01, for the years
\* 2026 and 2027: year, month and day of the month
format_date(d) ==
  LET of_year == d % 365
      m == CHOOSE k \in 1 .. 12 :
             days_before(k) <= of_year /\ of_year < days_before(k) + MonthDays[k]
  IN [year |-> 2026 + (d \div 365), month |-> m,
      day |-> of_year - days_before(m) + 1]

\* invoice.rs: calculate_due_date, today the day of Utc::now()
calculate_due_date(payment_terms, today) ==
  LET days == IF contains(to_lowercase(payment_terms), <<"n", "e", "t", " ", "3", "0">>) THEN 30
              ELSE IF contains(to_lowercase(payment_terms), <<"n", "e", "t", " ", "1", "5">>) THEN 15
              ELSE IF contains(to_lowercase(payment_terms), <<"n", "e", "t", " ", "6", "0">>) THEN 60
              ELSE 0
  IN IF days > 0 THEN format_date(today + days) ELSE format_date(today)

\* No due date was asked for
NoDue == [payment_terms |-> <<>>, today |-> 0, result |-> None]

\* App::default: the Projects screen and the form of the Pomodoro screen of
\* a new session
FormNew ==
  /\ projects = {}
  /\ pomodoro_field = "Enabled"
  /\ pomodoro_work_input = <<>>
  /\ pomodoro_short_break_input = <<>>
  /\ pomodoro_long_break_input = <<>>
  /\ pomodoro_cycles_input = <<>>

\* App::new: the session built over the store as it is at process start
AppNew ==
  /\ \E a \in refresh_active_timer(db_entries, 0) :
       /\ active_entry = a
       /\ IF a # None /\ db_pomodoro.enabled
          THEN /\ pomodoro_state = "Working"
               /\ pomodoro_interval_start = Some(a[1].start)
          ELSE /\ pomodoro_state = "Idle"
               /\ pomodoro_interval_start = None
  /\ current_screen = "Timer"
  /\ project_input = <<>>
  /\ description_input = WorkSession
  /\ input_mode = "Normal"
  /\ status_message = None
  /\ show_only_unbilled = FALSE
  /\ entries = refresh_entries(db_entries, FALSE)
  /\ confirm_delete = None
  /\ editing_entry = None
  /\ edit_field = "Project"
  /\ edit_project_input = <<>>
  /\ edit_description_input = <<>>
  /\ edit_start_input = <<>>
  /\ edit_end_input = <<>>
  /\ pomodoro_config = db_pomodoro
  /\ pomodoro_cycles_completed = 0
  /\ breaks_started = 0
  /\ pomodoro_last_project = None
  /\ pomodoro_last_description = None

\* main.rs: main creates the tables (models.rs: init_db, init_pomodoro_db
\* inserts the default pomodoro_config row) and opens the session over them.
Init ==
  /\ now = 0
  /\ db_entries = {}
  /\ db_seq = 0
  /\ db_pomodoro = DefaultPomodoroConfig
  /\ AppNew
  /\ menubar \in MenubarInit(db_entries, db_pomodoro)
  /\ invoice = NoInvoice
  /\ db_projects = {}
  /\ db_invoices = {}
  /\ invoice_files = <<>>
  /\ in_flight = [p \in Processes |-> NoGeneration]
  /\ project_rates = <<>>
  /\ FormNew
  /\ notified = None
  /\ due = NoDue
  /\ pending = None
  /\ last = "Init"
  /\ err = FALSE

\* A StartTimer that only looks at the project buffer (not the code)
start_precondition_lax == project_input # <<>>

\* Message::StartTimer: !self.project_input.is_empty() &&
\* self.active_entry.is_none()
start_precondition == project_input # <<>> /\ active_entry = None

\* Message::StartTimer
StartTimer(f) ==
  /\ pending = None
  /\ last' = "StartTimer"
  /\ UNCHANGED outsideVars
  /\ IF start_precondition
     THEN /\ db_seq < MaxEntries
          /\ LET o == start_timer(db_entries, db_seq, project_input,
                                  description_input, now, f)
             IN /\ db_entries' = o.rows
                /\ db_seq' = o.seq
                /\ err' = ~o.ok
                /\ IF o.ok
                   THEN /\ pomodoro_last_project' = Some(project_input)
                        /\ pomodoro_last_description' = Some(description_input)
                        /\ project_input' = <<>>
                        /\ description_input' = WorkSession
                        /\ status_message' = Status("Timer started", 0)
                        /\ input_mode' = "Normal"
                        /\ IF pomodoro_config.enabled
                           THEN /\ pomodoro_state' = "Working"
                                /\ pomodoro_interval_start' = Some(now)
                           ELSE UNCHANGED <<pomodoro_state, pomodoro_interval_start>>
                        /\ pending' = Some("RefreshActiveTimer")
                        /\ UNCHANGED <<current_screen, active_entry, listVars,
                                       editVars, pomodoro_config,
                                       pomodoro_cycles_completed,
                                       breaks_started>>
                   ELSE UNCHANGED <<appVars, pending>>
     ELSE /\ err' = FALSE
          /\ UNCHANGED <<db_entries, db_seq, appVars, pending>>
  /\ UNCHANGED <<now, db_pomodoro>>

\* Message::StopTimer
StopTimer(f) ==
  /\ pending = None
  /\ last' = "StopTimer"
  /\ UNCHANGED outsideVars
  /\ IF active_entry # None
     THEN \E o \in stop_active_timer(db_entries, now, f) :
            /\ db_entries' = o.rows
            /\ err' = (o.res = "Err")
            /\ IF o.res # "Err"
               THEN /\ active_entry' = None
                    /\ status_message' = Status("Timer stopped", 0)
                    /\ pomodoro_state' = "Idle"
                    /\ pomodoro_interval_start' = None
                    /\ pomodoro_cycles_completed' = 0
                    /\ breaks_started' = 0
                    /\ pending' = Some("RefreshEntries")
                    /\ UNCHANGED <<current_screen, project_input,
                                   description_input, input_mode,
                                   listVars, editVars, pomodoro_config,
                                   pomodoro_last_project, pomodoro_last_description>>
               ELSE UNCHANGED <<appVars, pending>>
     ELSE /\ err' = FALSE
          /\ UNCHANGED <<db_entries, appVars, pending>>
  /\ UNCHANGED <<now, db_seq, db_pomodoro>>

\* Message::UpdateProjectInput(c)
UpdateProjectInput(c) ==
  /\ pending = None
  /\ Append(project_input, c) \in ProjectStrings
  /\ project_input' = Append(project_input, c)
  /\ last' = "Key"
  /\ UNCHANGED outsideVars
  /\ err' = FALSE
  /\ UNCHANGED <<now, dbVars, current_screen, active_entry, description_input, input_mode,
                 status_message, listVars, editVars, pomoVars, pending>>

\* Message::DeleteProjectChar
DeleteProjectChar ==
  /\ pending = None
  /\ project_input' = pop(project_input)
  /\ last' = "Key"
  /\ UNCHANGED outsideVars
  /\ err' = FALSE
  /\ UNCHANGED <<now, dbVars, current_screen, active_entry, description_input, input_mode,
                 status_message, listVars, editVars, pomoVars, pending>>

\* A work-complete notification that asks for nothing (not the code)
notify_nothing == None

\* notification.rs: notify_work_complete(), the request it makes
notify_work_complete == Some("work_complete")

\* notification.rs: notify_break_complete(), the request it makes
notify_break_complete == Some("break_complete")

\* Message::Tick.  fr: fault of the mirror's refresh; fs: fault point of the
\* auto-stop's stop_active_timer.
Tick(fr, fs) ==
  /\ pending = None
  /\ last' = "Tick"
  /\ UNCHANGED <<menubar, invoiceVars, db_projects, formVars>>
  /\ \E m \in refresh_active_timer(db_entries, fr) :
       LET running == pomodoro_config.enabled /\ pomodoro_interval_start # None
           elapsed == elapsed_secs(now, pomodoro_interval_start[1])
           work_secs == pomodoro_config.work_duration * 60
           break_secs == get_current_break_duration(pomodoro_cycles_completed,
                                                    pomodoro_config) * 60
       IN IF running /\ pomodoro_state = "Working" /\ elapsed >= work_secs
          THEN \E o \in stop_active_timer(db_entries, now, fs) :
                 /\ db_entries' = o.rows
                 /\ err' = (fr = 1 \/ o.res = "Err")
                 /\ pomodoro_last_project' =
                      IF m # None THEN Some(m[1].project) ELSE pomodoro_last_project
                 /\ pomodoro_last_description' =
                      IF m # None THEN Some(m[1].description)
                      ELSE pomodoro_last_description
                 /\ active_entry' = None
                 /\ pomodoro_state' = "WorkComplete"
                 /\ pomodoro_interval_start' = None
                 /\ notified' = notify_work_complete
                 /\ status_message' = Status("Work period complete", 0)
                 /\ UNCHANGED <<pomodoro_config, pomodoro_cycles_completed,
                                breaks_started>>
          ELSE IF running /\ pomodoro_state = "OnBreak" /\ elapsed >= break_secs
          THEN /\ active_entry' = m
               /\ err' = (fr = 1)
               /\ pomodoro_state' = "BreakComplete"
               /\ pomodoro_interval_start' = None
               /\ notified' = notify_break_complete
               /\ status_message' = Status("Break complete", 0)
               /\ UNCHANGED <<db_entries, pomodoro_config, pomodoro_cycles_completed,
                              pomodoro_last_project, pomodoro_last_description,
                              breaks_started>>
          ELSE /\ active_entry' = m
               /\ err' = (fr = 1)
               /\ notified' = None
               /\ UNCHANGED <<db_entries, status_message, pomoVars>>
  /\ UNCHANGED <<now, db_seq, db_pomodoro, current_screen, project_input,
                 description_input, input_mode, listVars, editVars, pending>>

\* A Refresh arm that asks for the list to be read again (not the code)
refresh_follow_up_again(msg) ==
  IF msg = "RefreshEntries" THEN None ELSE Some("RefreshEntries")

\* The arms RefreshEntries, RefreshActiveTimer and RefreshProjects of
\* update() end with None: no follow-up
refresh_follow_up(msg) == None

\* Message::RefreshEntries
RefreshEntries(fr) ==
  /\ pending = Some("RefreshEntries")
  /\ entries' = IF fr = 1 THEN {} ELSE refresh_entries(db_entries, show_only_unbilled)
  /\ pending' = refresh_follow_up(pending[1])
  /\ err' = (err \/ fr = 1)
  /\ UNCHANGED <<now, dbVars, timerVars, status_message, show_only_unbilled,
                 confirm_delete, editVars, pomoVars, last, outsideVars>>

\* Message::RefreshActiveTimer
RefreshActiveTimer(fr) ==
  /\ pending = Some("RefreshActiveTimer")
  /\ active_entry' \in refresh_active_timer(db_entries, fr)
  /\ pending' = refresh_follow_up(pending[1])
  /\ err' = (err \/ fr = 1)
  /\ UNCHANGED <<now, dbVars, current_screen, project_input, description_input, input_mode,
                 status_message, listVars, editVars, pomoVars, last, outsideVars>>

\* A toggle that leaves the Pomodoro machine alone when turned off (not the
\* code)
toggle_effect_keep(on, mirror, state, interval_start, cycles, t) ==
  IF on /\ mirror # None
  THEN [state |-> "Working", interval_start |-> Some(t), cycles |-> cycles]
  ELSE [state |-> state, interval_start |-> interval_start, cycles |-> cycles]

\* A toggle that anchors the work interval at the entry's start (not the code)
toggle_effect_from_start(on, mirror, state, interval_start, cycles, t) ==
  IF on
  THEN IF mirror # None
       THEN [state |-> "Working", interval_start |-> Some(mirror[1].start),
             cycles |-> cycles]
       ELSE [state |-> state, interval_start |-> interval_start,
             cycles |-> cycles]
  ELSE [state |-> "Idle", interval_start |-> None, cycles |-> 0]

\* A toggle that, turned off, leaves the interval start in place (not the
\* code)
toggle_effect_keep_start(on, mirror, state, interval_start, cycles, t) ==
  IF on /\ mirror # None
  THEN [state |-> "Working", interval_start |-> Some(t), cycles |-> cycles]
  ELSE IF on
  THEN [state |-> state, interval_start |-> interval_start, cycles |-> cycles]
  ELSE [state |-> "Idle", interval_start |-> interval_start, cycles |-> 0]

\* Message::TogglePomodoroMode: the Pomodoro state, interval start and cycle
\* counter after the toggle; on is the new value of enabled
toggle_effect(on, mirror, state, interval_start, cycles, t) ==
  IF on
  THEN IF mirror # None
       THEN [state |-> "Working", interval_start |-> Some(t), cycles |-> cycles]
       ELSE [state |-> state, interval_start |-> interval_start,
             cycles |-> cycles]
  ELSE [state |-> "Idle", interval_start |-> None, cycles |-> 0]

\* Message::TogglePomodoroMode.  f = 1: set_pomodoro_enabled fails (ignored).
TogglePomodoroMode(f) ==
  /\ pending = None
  /\ last' = "TogglePomodoroMode"
  /\ UNCHANGED outsideVars
  /\ err' = (f = 1)
  /\ pomodoro_config' = [pomodoro_config EXCEPT !.enabled = ~pomodoro_config.enabled]
  /\ db_pomodoro' = IF f = 1 THEN db_pomodoro
                    ELSE [db_pomodoro EXCEPT !.enabled = ~pomodoro_config.enabled]
  /\ LET o == toggle_effect(~pomodoro_config.enabled, active_entry,
                             pomodoro_state, pomodoro_interval_start,
                             pomodoro_cycles_completed, now)
     IN /\ pomodoro_state' = o.state
        /\ pomodoro_interval_start' = o.interval_start
        /\ pomodoro_cycles_completed' = o.cycles
  /\ IF ~pomodoro_config.enabled
     THEN /\ status_message' = Status("Pomodoro mode enabled", 0)
          /\ UNCHANGED breaks_started
     ELSE /\ status_message' = Status("Pomodoro mode disabled", 0)
          /\ breaks_started' = 0
  /\ UNCHANGED <<now, db_entries, db_seq, timerVars, listVars, editVars,
                 pomodoro_last_project, pomodoro_last_description, pending>>

\* A cycle counter that is never incremented (not the code)
next_cycles_stuck(cycles, cfg) == cycles

\* Message::AcknowledgePomodoro, BreakComplete: the cycle counter incremented
\* and wrapped to 0 at cycles_before_long
next_cycles(cycles, cfg) ==
  IF cycles + 1 >= cfg.cycles_before_long THEN 0 ELSE cycles + 1

\* Message::AcknowledgePomodoro
AcknowledgePomodoro ==
  /\ pending = None
  /\ last' = "AcknowledgePomodoro"
  /\ UNCHANGED outsideVars
  /\ err' = FALSE
  /\ IF pomodoro_state = "WorkComplete"
     THEN /\ pomodoro_state' = "OnBreak"
          /\ pomodoro_interval_start' = Some(now)
          /\ status_message' =
               Status(IF is_long_break_next(pomodoro_cycles_completed, pomodoro_config)
                      THEN "Starting long break" ELSE "Starting short break",
                      get_current_break_duration(pomodoro_cycles_completed,
                                                 pomodoro_config))
          /\ breaks_started' = breaks_started + 1
          /\ UNCHANGED <<project_input, description_input, pomodoro_cycles_completed>>
     ELSE IF pomodoro_state = "BreakComplete"
     THEN /\ pomodoro_cycles_completed' =
               next_cycles(pomodoro_cycles_completed, pomodoro_config)
          /\ pomodoro_state' = "Idle"
          /\ pomodoro_interval_start' = None
          /\ project_input' = IF pomodoro_last_project # None
                              THEN pomodoro_last_project[1] ELSE project_input
          /\ description_input' = IF pomodoro_last_description # None
                                  THEN pomodoro_last_description[1]
                                  ELSE description_input
          /\ status_message' = Status("Ready to start next work period", 0)
          /\ UNCHANGED breaks_started
     ELSE UNCHANGED <<project_input, description_input, status_message,
                      pomodoro_state, pomodoro_interval_start,
                      pomodoro_cycles_completed, breaks_started>>
  /\ UNCHANGED <<now, dbVars, current_screen, active_entry, input_mode, listVars, editVars,
                 pomodoro_config, pomodoro_last_project, pomodoro_last_description,
                 pending>>

\* Message::ToggleBilledFilter
ToggleBilledFilter ==
  /\ pending = None
  /\ last' = "ToggleBilledFilter"
  /\ UNCHANGED outsideVars
  /\ err' = FALSE
  /\ show_only_unbilled' = ~show_only_unbilled
  /\ pending' = Some("RefreshEntries")
  /\ UNCHANGED <<now, dbVars, timerVars, status_message, entries, confirm_delete,
                 editVars, pomoVars>>

\* Message::DeleteEntry(id)
DeleteEntry(id) ==
  /\ pending = None
  /\ last' = "DeleteEntry"
  /\ UNCHANGED outsideVars
  /\ err' = FALSE
  /\ confirm_delete' = Some(id)
  /\ UNCHANGED <<now, dbVars, timerVars, status_message, entries,
                 show_only_unbilled, editVars, pomoVars, pending>>

\* Message::ConfirmDelete.  f = 1: the DELETE fails.
ConfirmDelete(f) ==
  /\ pending = None
  /\ last' = "ConfirmDelete"
  /\ UNCHANGED outsideVars
  /\ confirm_delete' = None
  /\ IF confirm_delete # None
     THEN /\ err' = (f = 1)
          /\ IF f = 1
             THEN UNCHANGED <<db_entries, status_message, pending>>
             ELSE /\ db_entries' = delete(db_entries, confirm_delete[1]).rows
                  /\ status_message' = Status("Entry deleted", confirm_delete[1])
                  /\ pending' = Some("RefreshEntries")
     ELSE /\ err' = FALSE
          /\ UNCHANGED <<db_entries, status_message, pending>>
  /\ UNCHANGED <<now, db_seq, db_pomodoro, timerVars, entries, show_only_unbilled,
                 editVars, pomoVars>>

\* Message::CancelDelete
CancelDelete ==
  /\ pending = None
  /\ last' = "CancelDelete"
  /\ UNCHANGED outsideVars
  /\ err' = FALSE
  /\ confirm_delete' = None
  /\ UNCHANGED <<now, dbVars, timerVars, status_message, entries,
                 show_only_unbilled, editVars, pomoVars, pending>>

\* Message::EditEntry(id)
EditEntry(id) ==
  /\ pending = None
  /\ last' = "EditEntry"
  /\ UNCHANGED outsideVars
  /\ err' = FALSE
  /\ IF \E e \in entries : e.id = id
     THEN LET entry == CHOOSE e \in entries : e.id = id
          IN /\ editing_entry' = Some(entry)
             /\ edit_field' = "Project"
             /\ edit_project_input' = entry.project
             /\ edit_description_input' = entry.description
             /\ edit_start_input' = format_local(entry.start)
             /\ edit_end_input' = IF entry.end # None
                                  THEN format_local(entry.end[1]) ELSE <<>>
             /\ input_mode' = "EditEntryProject"
     ELSE UNCHANGED <<editVars, input_mode>>
  /\ UNCHANGED <<now, dbVars, current_screen, active_entry, project_input, description_input,
                 status_message, listVars, pomoVars, pending>>

\* the InputMode of an EditField
edit_input_mode(field) ==
  CASE field = "Project" -> "EditEntryProject"
    [] field = "Description" -> "EditEntryDescription"
    [] field = "Start" -> "EditEntryStart"
    [] field = "End" -> "EditEntryEnd"

\* Message::EditNextField
EditNextField ==
  /\ pending = None
  /\ last' = "Key"
  /\ UNCHANGED outsideVars
  /\ err' = FALSE
  /\ edit_field' = CASE edit_field = "Project" -> "Description"
                     [] edit_field = "Description" -> "Start"
                     [] edit_field = "Start" -> "End"
                     [] edit_field = "End" -> "Project"
  /\ input_mode' = edit_input_mode(edit_field')
  /\ UNCHANGED <<now, dbVars, current_screen, active_entry, project_input, description_input,
                 status_message, listVars, editing_entry, edit_project_input,
                 edit_description_input, edit_start_input, edit_end_input,
                 pomoVars, pending>>

\* Message::EditPrevField
EditPrevField ==
  /\ pending = None
  /\ last' = "Key"
  /\ UNCHANGED outsideVars
  /\ err' = FALSE
  /\ edit_field' = CASE edit_field = "Project" -> "End"
                     [] edit_field = "Description" -> "Project"
                     [] edit_field = "Start" -> "Description"
                     [] edit_field = "End" -> "Start"
  /\ input_mode' = edit_input_mode(edit_field')
  /\ UNCHANGED <<now, dbVars, current_screen, active_entry, project_input, description_input,
                 status_message, listVars, editing_entry, edit_project_input,
                 edit_description_input, edit_start_input, edit_end_input,
                 pomoVars, pending>>

\* Message::EditFieldInput(c): c is pushed onto the buffer of edit_field
EditFieldInput(c) ==
  /\ pending = None
  /\ last' = "Key"
  /\ UNCHANGED outsideVars
  /\ err' = FALSE
  /\ CASE edit_field = "Project" ->
            /\ Append(edit_project_input, c) \in ProjectStrings
            /\ edit_project_input' = Append(edit_project_input, c)
            /\ UNCHANGED <<edit_description_input, edit_start_input, edit_end_input>>
       [] edit_field = "Description" ->
            /\ Append(edit_description_input, c) \in DescriptionStrings
            /\ edit_description_input' = Append(edit_description_input, c)
            /\ UNCHANGED <<edit_project_input, edit_start_input, edit_end_input>>
       [] edit_field = "Start" ->
            /\ Append(edit_start_input, c) \in TimeStrings
            /\ edit_start_input' = Append(edit_start_input, c)
            /\ UNCHANGED <<edit_project_input, edit_description_input, edit_end_input>>
       [] edit_field = "End" ->
            /\ Append(edit_end_input, c) \in TimeStrings
            /\ edit_end_input' = Append(edit_end_input, c)
            /\ UNCHANGED <<edit_project_input, edit_description_input, edit_start_input>>
  /\ UNCHANGED <<now, dbVars, timerVars, status_message, listVars, editing_entry,
                 edit_field, pomoVars, pending>>

\* Message::EditFieldBackspace
EditFieldBackspace ==
  /\ pending = None
  /\ last' = "Key"
  /\ UNCHANGED outsideVars
  /\ err' = FALSE
  /\ CASE edit_field = "Project" ->
            /\ edit_project_input' = pop(edit_project_input)
            /\ UNCHANGED <<edit_description_input, edit_start_input, edit_end_input>>
       [] edit_field = "Description" ->
            /\ edit_description_input' = pop(edit_description_input)
            /\ UNCHANGED <<edit_project_input, edit_start_input, edit_end_input>>
       [] edit_field = "Start" ->
            /\ edit_start_input' = pop(edit_start_input)
            /\ UNCHANGED <<edit_project_input, edit_description_input, edit_end_input>>
       [] edit_field = "End" ->
            /\ edit_end_input' = pop(edit_end_input)
            /\ UNCHANGED <<edit_project_input, edit_description_input, edit_start_input>>
  /\ UNCHANGED <<now, dbVars, timerVars, status_message, listVars, editing_entry,
                 edit_field, pomoVars, pending>>

\* The entry SaveEditEntry writes: the buffers applied to the entry loaded
edited_entry(entry, project, description, start_input, end_input) ==
  LET ps == parse_from_str(start_input)
      pe == parse_from_str(end_input)
      start == IF ps # None /\ from_local_datetime(ps[1]) # None
               THEN from_local_datetime(ps[1])[1] ELSE entry.start
      end == IF end_input = <<>> THEN None
             ELSE IF pe # None THEN from_local_datetime(pe[1])
             ELSE entry.end
  IN [entry EXCEPT !.project = project, !.description = description,
                   !.start = start, !.end = end]

\* Message::SaveEditEntry.  f = 1: the UPDATE fails.
SaveEditEntry(f) ==
  /\ pending = None
  /\ last' = "SaveEditEntry"
  /\ UNCHANGED outsideVars
  /\ IF editing_entry # None
     THEN LET entry == edited_entry(editing_entry[1], edit_project_input,
                                    edit_description_input, edit_start_input,
                                    edit_end_input)
          IN /\ err' = (f = 1)
             /\ IF f = 1
                THEN /\ status_message' = Status("Failed to update entry", 0)
                     /\ UNCHANGED db_entries
                ELSE /\ db_entries' = update_entry(db_entries, entry).rows
                     /\ status_message' = Status("Entry updated", entry.id)
     ELSE /\ err' = FALSE
          /\ UNCHANGED <<db_entries, status_message>>
  /\ editing_entry' = None
  /\ input_mode' = "Normal"
  /\ edit_field' = "Project"
  /\ pending' = Some("RefreshEntries")
  /\ UNCHANGED <<now, db_seq, db_pomodoro, current_screen, active_entry,
                 project_input, description_input, listVars, edit_project_input,
                 edit_description_input, edit_start_input, edit_end_input, pomoVars>>

\* Message::CancelEditEntry
CancelEditEntry ==
  /\ pending = None
  /\ last' = "CancelEditEntry"
  /\ UNCHANGED outsideVars
  /\ err' = FALSE
  /\ editing_entry' = None
  /\ input_mode' = "Normal"
  /\ edit_field' = "Project"
  /\ UNCHANGED <<now, dbVars, current_screen, active_entry, project_input, description_input,
                 status_message, listVars, edit_project_input,
                 edit_description_input, edit_start_input, edit_end_input,
                 pomoVars, pending>>

\* Message::MarkEntryBilled(id).  f = 1: the UPDATE fails.
MarkEntryBilled(id, f) ==
  /\ pending = None
  /\ last' = "MarkEntryBilled"
  /\ UNCHANGED outsideVars
  /\ err' = (f = 1)
  /\ IF f = 1
     THEN UNCHANGED <<db_entries, status_message, pending>>
     ELSE /\ db_entries' = mark_billed(db_entries, id)
          /\ status_message' = Status("Entry marked as billed", id)
          /\ pending' = Some("RefreshEntries")
  /\ UNCHANGED <<now, db_seq, db_pomodoro, timerVars, listVars, editVars, pomoVars>>

\* Message::UnbillEntry(id).  f = 1: the UPDATE fails.
UnbillEntry(id, f) ==
  /\ pending = None
  /\ last' = "UnbillEntry"
  /\ UNCHANGED outsideVars
  /\ err' = (f = 1)
  /\ IF f = 1
     THEN UNCHANGED <<db_entries, status_message, pending>>
     ELSE /\ db_entries' = unmark_billed(db_entries, id)
          /\ status_message' = Status("Entry unbilled", id)
          /\ pending' = Some("RefreshEntries")
  /\ UNCHANGED <<now, db_seq, db_pomodoro, timerVars, listVars, editVars, pomoVars>>

\* Message::SwitchScreen(screen).  Invoice refreshes the rates
\* (App::refresh_invoice_entries), Projects reloads the project list,
\* Pomodoro reloads the configuration and fills the form from it.
SwitchScreen(screen) ==
  /\ pending = None
  /\ last' = "SwitchScreen"
  /\ project_rates' = IF screen = "Invoice" THEN list_projects(db_projects)
                      ELSE project_rates
  /\ projects' = IF screen = "Projects" THEN db_projects ELSE projects
  /\ IF screen = "Pomodoro"
     THEN /\ pomodoro_config' = db_pomodoro
          /\ pomodoro_work_input' = to_string(db_pomodoro.work_duration)
          /\ pomodoro_short_break_input' = to_string(db_pomodoro.short_break)
          /\ pomodoro_long_break_input' = to_string(db_pomodoro.long_break)
          /\ pomodoro_cycles_input' = to_string(db_pomodoro.cycles_before_long)
     ELSE UNCHANGED <<pomodoro_config, pomodoro_work_input,
                      pomodoro_short_break_input, pomodoro_long_break_input,
                      pomodoro_cycles_input>>
  /\ UNCHANGED <<notified, menubar, invoice, db_invoices, invoice_files, in_flight, db_projects,
                 due, pomodoro_field>>
  /\ err' = FALSE
  /\ current_screen' = screen
  /\ input_mode' = "Normal"
  /\ confirm_delete' = None
  /\ UNCHANGED <<now, dbVars, active_entry, project_input, description_input,
                 status_message, entries, show_only_unbilled, editVars,
                 pomodoro_state, pomodoro_cycles_completed,
                 pomodoro_interval_start, pomodoro_last_project,
                 pomodoro_last_description, breaks_started, pending>>

\* Message::PomodoroNextField: the field after this one
pomodoro_next_field(field) ==
  CASE field = "Enabled" -> "WorkDuration"
    [] field = "WorkDuration" -> "ShortBreak"
    [] field = "ShortBreak" -> "LongBreak"
    [] field = "LongBreak" -> "Cycles"
    [] field = "Cycles" -> "Enabled"

\* Message::PomodoroPrevField: the field before this one
pomodoro_prev_field(field) ==
  CASE field = "Enabled" -> "Cycles"
    [] field = "WorkDuration" -> "Enabled"
    [] field = "ShortBreak" -> "WorkDuration"
    [] field = "LongBreak" -> "ShortBreak"
    [] field = "Cycles" -> "LongBreak"

\* the InputMode of a PomodoroField
pomodoro_input_mode(field) ==
  CASE field = "Enabled" -> "Normal"
    [] field = "WorkDuration" -> "EditingPomodoroWork"
    [] field = "ShortBreak" -> "EditingPomodoroShortBreak"
    [] field = "LongBreak" -> "EditingPomodoroLongBreak"
    [] field = "Cycles" -> "EditingPomodoroCycles"

\* Message::PomodoroNextField
PomodoroNextField ==
  /\ pending = None
  /\ last' = "PomodoroNextField"
  /\ err' = FALSE
  /\ pomodoro_field' = pomodoro_next_field(pomodoro_field)
  /\ input_mode' = pomodoro_input_mode(pomodoro_next_field(pomodoro_field))
  /\ UNCHANGED <<notified, menubar, invoiceVars, db_projects, projects, pomodoroInputs>>
  /\ UNCHANGED <<now, dbVars, current_screen, active_entry, project_input,
                 description_input, status_message, listVars, editVars,
                 pomoVars, pending>>

\* Message::PomodoroPrevField
PomodoroPrevField ==
  /\ pending = None
  /\ last' = "PomodoroPrevField"
  /\ err' = FALSE
  /\ pomodoro_field' = pomodoro_prev_field(pomodoro_field)
  /\ input_mode' = pomodoro_input_mode(pomodoro_prev_field(pomodoro_field))
  /\ UNCHANGED <<notified, menubar, invoiceVars, db_projects, projects, pomodoroInputs>>
  /\ UNCHANGED <<now, dbVars, current_screen, active_entry, project_input,
                 description_input, status_message, listVars, editVars,
                 pomoVars, pending>>

\* Message::PomodoroFieldInput: `if c.is_ascii_digit()`
accepts(c) == is_ascii_digit(c)

\* Message::PomodoroFieldInput(c): a digit is pushed onto the buffer of the
\* field in focus; a buffer holds MaxDigits characters at most
PomodoroFieldInput(c) ==
  /\ pending = None
  /\ last' = "PomodoroFieldInput"
  /\ err' = FALSE
  /\ IF accepts(c)
     THEN CASE pomodoro_field = "WorkDuration" ->
                 /\ Len(pomodoro_work_input) < MaxDigits
                 /\ pomodoro_work_input' = Append(pomodoro_work_input, c)
                 /\ UNCHANGED <<pomodoro_short_break_input,
                                pomodoro_long_break_input, pomodoro_cycles_input>>
            [] pomodoro_field = "ShortBreak" ->
                 /\ Len(pomodoro_short_break_input) < MaxDigits
                 /\ pomodoro_short_break_input' =
                      Append(pomodoro_short_break_input, c)
                 /\ UNCHANGED <<pomodoro_work_input, pomodoro_long_break_input,
                                pomodoro_cycles_input>>
            [] pomodoro_field = "LongBreak" ->
                 /\ Len(pomodoro_long_break_input) < MaxDigits
                 /\ pomodoro_long_break_input' =
                      Append(pomodoro_long_break_input, c)
                 /\ UNCHANGED <<pomodoro_work_input, pomodoro_short_break_input,
                                pomodoro_cycles_input>>
            [] pomodoro_field = "Cycles" ->
                 /\ Len(pomodoro_cycles_input) < MaxDigits
                 /\ pomodoro_cycles_input' = Append(pomodoro_cycles_input, c)
                 /\ UNCHANGED <<pomodoro_work_input, pomodoro_short_break_input,
                                pomodoro_long_break_input>>
            [] OTHER -> UNCHANGED pomodoroInputs
     ELSE UNCHANGED pomodoroInputs
  /\ UNCHANGED <<notified, menubar, invoiceVars, db_projects, projects, pomodoro_field>>
  /\ UNCHANGED <<now, dbVars, timerVars, status_message, listVars, editVars,
                 pomoVars, pending>>

\* Message::PomodoroFieldBackspace
PomodoroFieldBackspace ==
  /\ pending = None
  /\ last' = "PomodoroFieldBackspace"
  /\ err' = FALSE
  /\ CASE pomodoro_field = "WorkDuration" ->
            /\ pomodoro_work_input' = pop(pomodoro_work_input)
            /\ UNCHANGED <<pomodoro_short_break_input, pomodoro_long_break_input,
                           pomodoro_cycles_input>>
       [] pomodoro_field = "ShortBreak" ->
            /\ pomodoro_short_break_input' = pop(pomodoro_short_break_input)
            /\ UNCHANGED <<pomodoro_work_input, pomodoro_long_break_input,
                           pomodoro_cycles_input>>
       [] pomodoro_field = "LongBreak" ->
            /\ pomodoro_long_break_input' = pop(pomodoro_long_break_input)
            /\ UNCHANGED <<pomodoro_work_input, pomodoro_short_break_input,
                           pomodoro_cycles_input>>
       [] pomodoro_field = "Cycles" ->
            /\ pomodoro_cycles_input' = pop(pomodoro_cycles_input)
            /\ UNCHANGED <<pomodoro_work_input, pomodoro_short_break_input,
                           pomodoro_long_break_input>>
       [] OTHER -> UNCHANGED pomodoroInputs
  /\ UNCHANGED <<notified, menubar, invoiceVars, db_projects, projects, pomodoro_field>>
  /\ UNCHANGED <<now, dbVars, timerVars, status_message, listVars, editVars,
                 pomoVars, pending>>

\* A save that takes every value that parses (not the code)
parsed_or(buf, old) ==
  IF parse_i32(buf) # None THEN parse_i32(buf)[1] ELSE old

\* Message::SavePomodoroConfig, one field: `if let Ok(v) = buf.parse::<i32>()
\* { if v > 0 { field = v } }`
positive_or(buf, old) ==
  IF parse_i32(buf) # None /\ parse_i32(buf)[1] > 0
  THEN parse_i32(buf)[1] ELSE old

\* Message::SavePomodoroConfig.  f = 1: the UPDATE of set_pomodoro_config
\* fails (its result is dropped).
SavePomodoroConfig(f) ==
  /\ pending = None
  /\ last' = "SavePomodoroConfig"
  /\ err' = (f = 1)
  /\ LET cfg == [pomodoro_config EXCEPT
                   !.work_duration =
                      positive_or(pomodoro_work_input, @),
                   !.short_break =
                      positive_or(pomodoro_short_break_input, @),
                   !.long_break =
                      positive_or(pomodoro_long_break_input, @),
                   !.cycles_before_long =
                      positive_or(pomodoro_cycles_input, @)]
     IN /\ pomodoro_config' = cfg
        /\ db_pomodoro' = IF f = 1 THEN db_pomodoro ELSE cfg
  /\ status_message' = Status("Pomodoro settings saved", 0)
  /\ input_mode' = "Normal"
  /\ pomodoro_field' = "Enabled"
  /\ UNCHANGED <<notified, menubar, invoiceVars, db_projects, projects, pomodoroInputs>>
  /\ UNCHANGED <<now, db_entries, db_seq, current_screen, active_entry,
                 project_input, description_input, listVars, editVars,
                 pomodoro_state, pomodoro_cycles_completed,
                 pomodoro_interval_start, pomodoro_last_project,
                 pomodoro_last_description, breaks_started, pending>>

\* Message::CancelPomodoroEdit: the form is filled again from the session's
\* configuration (App::load_pomodoro_inputs)
CancelPomodoroEdit ==
  /\ pending = None
  /\ last' = "CancelPomodoroEdit"
  /\ err' = FALSE
  /\ pomodoro_work_input' = to_string(pomodoro_config.work_duration)
  /\ pomodoro_short_break_input' = to_string(pomodoro_config.short_break)
  /\ pomodoro_long_break_input' = to_string(pomodoro_config.long_break)
  /\ pomodoro_cycles_input' = to_string(pomodoro_config.cycles_before_long)
  /\ input_mode' = "Normal"
  /\ pomodoro_field' = "Enabled"
  /\ UNCHANGED <<notified, menubar, invoiceVars, db_projects, projects>>
  /\ UNCHANGED <<now, dbVars, current_screen, active_entry, project_input,
                 description_input, status_message, listVars, editVars,
                 pomoVars, pending>>

\* Message::ClearProjectRate(id); a project is named here by its name, which
\* is UNIQUE as its id is.  f = 1: the UPDATE of set_project_rate fails.
ClearProjectRate(name, f) ==
  /\ pending = None
  /\ last' = "ClearProjectRate"
  /\ err' = (f = 1 /\ \E q \in projects : q.name = name)
  /\ IF f = 0 /\ \E q \in projects : q.name = name
     THEN /\ db_projects' = set_project_rate(db_projects, name, None)
          /\ status_message' = Status("Rate cleared", 0)
          /\ pending' = Some("RefreshProjects")
     ELSE UNCHANGED <<db_projects, status_message, pending>>
  /\ UNCHANGED <<menubar, invoiceVars, formVars, notified>>
  /\ UNCHANGED <<now, dbVars, timerVars, listVars, editVars, pomoVars>>

\* Message::RefreshProjects
RefreshProjects(fr) ==
  /\ pending = Some("RefreshProjects")
  /\ projects' = IF fr = 1 THEN {} ELSE db_projects
  /\ pending' = refresh_follow_up(pending[1])
  /\ err' = (err \/ fr = 1)
  /\ UNCHANGED <<notified, menubar, invoiceVars, db_projects, pomodoro_field,
                 pomodoroInputs>>
  /\ UNCHANGED <<now, dbVars, appVars, last>>

\* Message::EnterInputMode(mode)
EnterInputMode(mode) ==
  /\ pending = None
  /\ last' = "Key"
  /\ UNCHANGED outsideVars
  /\ err' = FALSE
  /\ input_mode' = mode
  /\ UNCHANGED <<now, dbVars, current_screen, active_entry, project_input,
                 description_input, status_message, listVars, editVars,
                 pomoVars, pending>>

\* Message::ExitInputMode
ExitInputMode ==
  /\ pending = None
  /\ last' = "Key"
  /\ UNCHANGED outsideVars
  /\ err' = FALSE
  /\ input_mode' = "Normal"
  /\ UNCHANGED <<now, dbVars, current_screen, active_entry, project_input,
                 description_input, status_message, listVars, editVars,
                 pomoVars, pending>>

\* event.rs: handle_timer_keys, the messages a key makes on the Timer screen
handle_timer_keys ==
  CASE pomodoro_state \in {"WorkComplete", "BreakComplete"} ->
         {<<"AcknowledgePomodoro">>}
    [] pomodoro_state = "OnBreak" -> {}
    [] OTHER ->
         {<<"TogglePomodoroMode">>}
           \cup (IF active_entry # None THEN {<<"StopTimer">>}
                 ELSE {<<"EnterInputMode", "EditingProject">>})

\* event.rs: handle_entries_keys, the messages a key makes on the Entries
\* screen; the selected entry is any entry of the list (j and k move to it)
handle_entries_keys ==
  {<<"ToggleBilledFilter">>}
    \cup {<<"EditEntry", e.id>> : e \in entries}
    \cup {<<"DeleteEntry", e.id>> : e \in entries}
    \cup {<<"MarkEntryBilled", e.id>> : e \in {g \in entries : ~g.billed}}
    \cup {<<"UnbillEntry", e.id>> : e \in {g \in entries : g.billed}}

\* event.rs: handle_projects_keys, the messages a key makes on the Projects
\* screen; the selected project is any project of the list
handle_projects_keys ==
  {<<"ClearProjectRate", q.name>> : q \in projects}

\* event.rs: handle_pomodoro_keys, the messages a key makes on the Pomodoro
\* screen
handle_pomodoro_keys ==
  {<<"PomodoroNextField">>, <<"PomodoroPrevField">>, <<"TogglePomodoroMode">>}
    \cup (IF pomodoro_field = "Enabled" THEN {}
          ELSE {<<"EnterInputMode", pomodoro_input_mode(pomodoro_field)>>})

\* app.rs: enum Screen, and the characters typed into the Pomodoro form
Screens == {"Timer", "Entries", "Invoice", "Projects", "Pomodoro"}
FormChars == {Digits[d + 1] : d \in 0 .. 9} \cup {Junk}

\* event.rs: handle_key, the messages some key makes in the current state
handle_key ==
  IF confirm_delete # None THEN {<<"ConfirmDelete">>, <<"CancelDelete">>}
  ELSE CASE input_mode = "EditingProject" ->
              {<<"StartTimer">>, <<"ExitInputMode">>,
               <<"EnterInputMode", "EditingDescription">>,
               <<"DeleteProjectChar">>}
                \cup {<<"UpdateProjectInput", c>> : c \in Chars}
         [] input_mode = "EditingDescription" ->
              {<<"StartTimer">>, <<"ExitInputMode">>,
               <<"EnterInputMode", "EditingProject">>}
         [] input_mode \in {"EditEntryProject", "EditEntryDescription",
                            "EditEntryStart", "EditEntryEnd"} ->
              {<<"SaveEditEntry">>, <<"CancelEditEntry">>, <<"EditNextField">>,
               <<"EditPrevField">>, <<"EditFieldBackspace">>}
                \cup {<<"EditFieldInput", c>> : c \in Chars \cup TimeChars}
         [] input_mode \in {"EditingPomodoroWork", "EditingPomodoroShortBreak",
                            "EditingPomodoroLongBreak", "EditingPomodoroCycles"} ->
              {<<"SavePomodoroConfig">>, <<"CancelPomodoroEdit">>,
               <<"PomodoroNextField">>, <<"PomodoroPrevField">>,
               <<"PomodoroFieldBackspace">>}
                \cup {<<"PomodoroFieldInput", c>> : c \in FormChars}
         [] OTHER ->
              {<<"SwitchScreen", sc>> : sc \in Screens}
                \cup (CASE current_screen = "Timer" -> handle_timer_keys
                        [] current_screen = "Entries" -> handle_entries_keys
                        [] current_screen = "Projects" -> handle_projects_keys
                        [] current_screen = "Pomodoro" -> handle_pomodoro_keys
                        [] OTHER -> {<<"GenerateInvoice">>})

\* main.rs: Commands::Start, `meter start <project>` run by another process,
\* after the sync of main (which sees the entries stored before this run).
\* f: the fault point of start_timer; .expect ends the process on Err.
CliStart(project, f) ==
  /\ db_seq < MaxEntries
  /\ LET o == start_timer(db_entries, db_seq, project, WorkSession, now, f)
     IN /\ db_entries' = o.rows
        /\ db_seq' = o.seq
        /\ err' = ~o.ok
  /\ last' = "CliStart"
  /\ db_projects' = sync_projects_from_entries(db_entries, db_projects)
  /\ UNCHANGED <<menubar, invoiceVars, formVars, notified>>
  /\ UNCHANGED <<now, db_pomodoro, appVars, pending>>

\* main.rs: Commands::Stop, `meter stop` run by another process, after the
\* sync of main.
\* f: the fault point of stop_active_timer; .expect ends the process on Err.
CliStop(f) ==
  /\ \E o \in stop_active_timer(db_entries, now, f) :
       /\ db_entries' = o.rows
       /\ err' = (o.res = "Err")
  /\ last' = "CliStop"
  /\ db_projects' = sync_projects_from_entries(db_entries, db_projects)
  /\ UNCHANGED <<menubar, invoiceVars, formVars, notified>>
  /\ UNCHANGED <<now, db_seq, db_pomodoro, appVars, pending>>

\* `*duration as i64` of a duration given in half hours: the f64 is cut to
\* its whole hours
hours_as_i64(halves) == halves \div 2

\* main.rs: Commands::Add, `meter add -p <project> -d <desc> --duration <d>`
\* run by another process, after the sync of main.  halves is the duration
\* in half hours; the command prints the duration as it was given.
CliAdd(project, desc, halves) ==
  /\ db_seq < MaxEntries
  /\ LET entry == Entry(0, project, desc, now - (hours_as_i64(halves) * Hour),
                        Some(now), FALSE)
         ins == insert(db_entries, db_seq, entry)
     IN /\ db_entries' = ins.rows
        /\ db_seq' = ins.seq
  /\ err' = FALSE
  /\ last' = "CliAdd"
  /\ db_projects' = sync_projects_from_entries(db_entries, db_projects)
  /\ UNCHANGED <<menubar, invoiceVars, formVars, notified>>
  /\ UNCHANGED <<now, db_pomodoro, appVars, pending>>

\* main.rs: Commands::Bill { id }, `meter bill [id]` run by another process.
\* f = 1: the UPDATE fails; .expect ends the process on Err.
CliBill(id, f) ==
  /\ db_entries' = IF f = 1 THEN db_entries
                   ELSE IF id # None THEN mark_billed(db_entries, id[1])
                   ELSE mark_all_billed(db_entries)
  /\ err' = (f = 1)
  /\ last' = "CliBill"
  /\ db_projects' = sync_projects_from_entries(db_entries, db_projects)
  /\ UNCHANGED <<menubar, invoiceVars, formVars, notified>>
  /\ UNCHANGED <<now, db_seq, db_pomodoro, appVars, pending>>

\* main.rs: Commands::Rate with a rate, `meter rate <project> <rate>` run by
\* another process, after the sync of main
CliRate(project, rate) ==
  /\ db_projects' =
       set_project_rate(sync_projects_from_entries(db_entries, db_projects),
                        project, Some(rate))
  /\ err' = FALSE
  /\ last' = "CliRate"
  /\ UNCHANGED <<now, dbVars, appVars, pending, menubar, invoiceVars, formVars, notified>>

\* models.rs: init_invoice_settings_db, default_tax_rate REAL DEFAULT 0.0
DefaultTaxRate == 0

\* A generation that records the invoice whether or not it was rendered
\* (not the code)
generate_outcome_record_first(rendered, invoices, files, inv, fr) ==
  LET rec == record_invoice(invoices, inv, fr)
  IN [invoices |-> rec.rows,
      files |-> IF rendered THEN Append(files, inv.invoice_number) ELSE files,
      status |-> IF rendered THEN Status("Invoice written", inv.invoice_number)
                 ELSE Status("Failed to write invoice", 0),
      ok |-> rec.ok]

\* App::generate_invoice, `match write_invoice(&params)`: Ok records the
\* invoice, ignoring the result of record_invoice, and reports the file; Err
\* reports the failure
generate_outcome(rendered, invoices, files, inv, fr) ==
  IF rendered
  THEN LET rec == record_invoice(invoices, inv, fr)
       IN [invoices |-> rec.rows,
           files |-> Append(files, inv.invoice_number),
           status |-> Status("Invoice written", inv.invoice_number),
           ok |-> rec.ok]
  ELSE [invoices |-> invoices, files |-> files,
        status |-> Status("Failed to write invoice", 0), ok |-> TRUE]

\* Message::GenerateInvoice, App::generate_invoice in the mode CurrentMonth;
\* the month began at instant 0.  fn = 1: get_next_invoice_number fails;
\* fw = 1: write_invoice fails to render; fr = 1: record_invoice fails.
GenerateInvoice(fn, fw, fr) ==
  /\ pending = None
  /\ Len(invoice_files) < MaxInvoices
  /\ LET invoice_number == IF fn = 1 THEN 1
                           ELSE get_next_invoice_number(db_invoices)
     IN \E es \in by_start_desc(list_by_date_range(db_entries, 0, now,
                                                   Some(TRUE))) :
          LET params == [entries |-> es, project_rates |-> project_rates,
                         tax_rate |-> DefaultTaxRate]
          IN \E order \in key_orders(entries_by_project(es)) :
               LET result == write_invoice(params, order)
                   o == generate_outcome(
                          fw = 0, db_invoices, invoice_files,
                          Invoice(invoice_number, result.subtotal,
                                  DefaultTaxRate, result.tax_amount,
                                  result.total),
                          fr)
               IN /\ invoice' = [params |-> params,
                                 result |-> IF fw = 0 THEN Some(result)
                                            ELSE None]
                  /\ db_invoices' = o.invoices
                  /\ invoice_files' = o.files
                  /\ status_message' = o.status
                  /\ err' = (fn = 1 \/ ~o.ok)
  /\ last' = "GenerateInvoice"
  /\ UNCHANGED <<now, dbVars, timerVars, listVars, editVars, pomoVars, pending,
                 menubar, db_projects, project_rates, due, in_flight, formVars,
                 notified>>

\* main.rs: Commands::Invoice for the current month, `meter invoice` run by
\* another process on a reliable store, after the sync of main.  fw = 1:
\* write_invoice fails to render.
CliInvoice(fw) ==
  /\ Len(invoice_files) < MaxInvoices
  /\ LET project_rows == sync_projects_from_entries(db_entries, db_projects)
         billed == {e \in list(db_entries, Some(TRUE)) : e.end # None}
         invoice_number == get_next_invoice_number(db_invoices)
     IN /\ db_projects' = project_rows
        /\ IF billed = {}
           THEN UNCHANGED invoiceVars
           ELSE \E es \in by_start_desc(billed) :
                  LET rates == list_projects(
                                 {p \in project_rows :
                                    \E e \in billed : e.project = p.name})
                      params == [entries |-> es, project_rates |-> rates,
                                 tax_rate |-> DefaultTaxRate]
                  IN \E order \in key_orders(entries_by_project(es)) :
                       LET result == write_invoice(params, order)
                           rec == record_invoice(
                                    db_invoices,
                                    Invoice(invoice_number, result.subtotal,
                                            DefaultTaxRate, result.tax_amount,
                                            result.total),
                                    0)
                       IN /\ invoice' =
                               [params |-> params,
                                result |-> IF fw = 0 THEN Some(result)
                                           ELSE None]
                          /\ db_invoices' = IF fw = 0 THEN rec.rows
                                            ELSE db_invoices
                          /\ invoice_files' =
                               IF fw = 0
                               THEN Append(invoice_files, invoice_number)
                               ELSE invoice_files
                          /\ UNCHANGED <<project_rates, due, in_flight>>
  /\ err' = FALSE
  /\ last' = "CliInvoice"
  /\ UNCHANGED <<now, dbVars, appVars, pending, menubar, formVars, notified>>

\* ------------------------------------------------- menu-bar event handlers
\* menubar.rs: Event::UserEvent(UserEvent::Tick), once a second
MenubarTick ==
  /\ \E new_entry \in get_active_entry(db_entries) :
       LET m == menubar
           cfg == db_pomodoro
           timer_changed ==
             IF m.current_entry # None /\ new_entry # None
             THEN m.current_entry[1].id # new_entry[1].id
             ELSE (m.current_entry = None) # (new_entry = None)
           started == timer_changed /\ new_entry # None /\ cfg.enabled
           stopped == /\ timer_changed /\ ~started /\ new_entry = None
                      /\ m.pomodoro_state = "Working"
           state == IF started THEN "Working"
                    ELSE IF stopped THEN "Idle" ELSE m.pomodoro_state
           interval_start == IF started THEN Some(now)
                             ELSE IF stopped THEN None
                             ELSE m.pomodoro_interval_start
           is_long == (m.pomodoro_cycles_completed + 1) >= cfg.cycles_before_long
           break_secs == (IF is_long THEN cfg.long_break ELSE cfg.short_break) * 60
           timed == cfg.enabled /\ interval_start # None
       IN IF timed /\ state = "Working"
             /\ elapsed_secs(now, interval_start[1]) >= cfg.work_duration * 60
          THEN \E o \in stop_active_timer(db_entries, now, 0) :
                 /\ db_entries' = o.rows
                 /\ menubar' =
                      [m EXCEPT !.pomodoro_config = cfg,
                                !.current_entry = None,
                                !.pomodoro_last_project =
                                  IF new_entry # None
                                  THEN Some(new_entry[1].project) ELSE @,
                                !.pomodoro_last_description =
                                  IF new_entry # None
                                  THEN Some(new_entry[1].description) ELSE @,
                                !.pomodoro_state = "WorkComplete",
                                !.pomodoro_interval_start = None]
          ELSE /\ db_entries' = db_entries
               /\ menubar' =
                    [m EXCEPT !.pomodoro_config = cfg,
                              !.current_entry = new_entry,
                              !.pomodoro_state =
                                IF timed /\ state = "OnBreak"
                                   /\ elapsed_secs(now, interval_start[1])
                                        >= break_secs
                                THEN "BreakComplete" ELSE state,
                              !.pomodoro_interval_start =
                                IF timed /\ state = "OnBreak"
                                   /\ elapsed_secs(now, interval_start[1])
                                        >= break_secs
                                THEN None ELSE interval_start]
  /\ last' = "MenubarTick"
  /\ UNCHANGED <<invoiceVars, db_projects, formVars, notified>>
  /\ err' = FALSE
  /\ UNCHANGED <<now, db_seq, db_pomodoro, appVars, pending>>

\* menubar.rs, resume_work and HotKey in BreakComplete:
\* pomodoro_cycles_completed += 1, back to 0 at cycles_before_long
resume_cycles(cycles, cfg) ==
  IF cycles + 1 >= cfg.cycles_before_long THEN 0 ELSE cycles + 1

\* menubar.rs, resume_work and HotKey in BreakComplete: the Entry inserted
resume_entry(m, t) ==
  Entry(0,
        IF m.pomodoro_last_project # None THEN m.pomodoro_last_project[1]
        ELSE Work,
        IF m.pomodoro_last_description # None
        THEN m.pomodoro_last_description[1] ELSE WorkSession,
        t, None, FALSE)

\* menubar.rs: Event::UserEvent(UserEvent::MenuEvent(event)); id is the
\* item's id, <<"project:", p>> for the id "project:p".  f = 1: the INSERT
\* fails.
MenuEvent(id, f) ==
  /\ LET m == menubar
     IN CASE id = <<"pomodoro">> ->
               /\ db_pomodoro' =
                    [db_pomodoro EXCEPT !.enabled = ~m.pomodoro_config.enabled]
               /\ menubar' =
                    IF ~m.pomodoro_config.enabled
                    THEN IF m.current_entry # None
                         THEN [m EXCEPT !.pomodoro_config.enabled = TRUE,
                                        !.pomodoro_state = "Working",
                                        !.pomodoro_interval_start = Some(now)]
                         ELSE [m EXCEPT !.pomodoro_config.enabled = TRUE]
                    ELSE [m EXCEPT !.pomodoro_config.enabled = FALSE,
                                   !.pomodoro_state = "Idle",
                                   !.pomodoro_interval_start = None,
                                   !.pomodoro_cycles_completed = 0]
               /\ UNCHANGED <<db_entries, db_seq>>
          [] id = <<"stop">> ->
               /\ \E o \in stop_active_timer(db_entries, now, 0) :
                    /\ db_entries' = o.rows
                    /\ menubar' =
                         IF o.res = "Some"
                         THEN [m EXCEPT !.current_entry = None,
                                        !.pomodoro_state = "Idle",
                                        !.pomodoro_interval_start = None,
                                        !.pomodoro_cycles_completed = 0]
                         ELSE m
               /\ UNCHANGED <<db_seq, db_pomodoro>>
          [] id = <<"start_break">> ->
               /\ menubar' =
                    IF m.pomodoro_state = "WorkComplete"
                    THEN [m EXCEPT !.pomodoro_state = "OnBreak",
                                   !.pomodoro_interval_start = Some(now)]
                    ELSE m
               /\ UNCHANGED dbVars
          [] id = <<"resume_work">> ->
               IF m.pomodoro_state = "BreakComplete"
               THEN /\ db_seq < MaxEntries
                    /\ LET ins == insert(db_entries, db_seq, resume_entry(m, now))
                           c == resume_cycles(m.pomodoro_cycles_completed,
                                              m.pomodoro_config)
                       IN IF f = 1
                          THEN /\ menubar' =
                                    [m EXCEPT !.pomodoro_cycles_completed = c,
                                              !.pomodoro_state = "Idle",
                                              !.pomodoro_interval_start = None]
                               /\ UNCHANGED dbVars
                          ELSE /\ db_entries' = ins.rows
                               /\ db_seq' = ins.seq
                               /\ \E a \in get_active_entry(ins.rows) :
                                    menubar' =
                                      [m EXCEPT
                                         !.pomodoro_cycles_completed = c,
                                         !.current_entry = a,
                                         !.pomodoro_state = "Working",
                                         !.pomodoro_interval_start = Some(now)]
                               /\ UNCHANGED db_pomodoro
               ELSE UNCHANGED <<menubar, dbVars>>
          [] Len(id) = 2 /\ id[1] = "project:" ->
               /\ db_seq < MaxEntries
               /\ LET ins == insert(db_entries, db_seq,
                                    Entry(0, id[2], WorkSession, now, None, FALSE))
                  IN IF f = 1
                     THEN UNCHANGED <<menubar, dbVars>>
                     ELSE /\ db_entries' = ins.rows
                          /\ db_seq' = ins.seq
                          /\ \E a \in get_active_entry(ins.rows) :
                               menubar' =
                                 [m EXCEPT
                                    !.current_entry = a,
                                    !.pomodoro_last_project = Some(id[2]),
                                    !.pomodoro_last_description =
                                      Some(WorkSession),
                                    !.pomodoro_state =
                                      IF m.pomodoro_config.enabled
                                      THEN "Working" ELSE @,
                                    !.pomodoro_interval_start =
                                      IF m.pomodoro_config.enabled
                                      THEN Some(now) ELSE @]
                          /\ UNCHANGED db_pomodoro
          [] OTHER -> UNCHANGED <<menubar, dbVars>>
  /\ last' = "MenuEvent"
  /\ UNCHANGED <<invoiceVars, db_projects, formVars, notified>>
  /\ err' = (f = 1)
  /\ UNCHANGED <<now, appVars, pending>>

\* menubar.rs: Event::UserEvent(UserEvent::HotKey(event)), the global hotkey.
\* f = 1: the INSERT fails.
HotKey(f) ==
  /\ LET m == menubar
     IN CASE m.pomodoro_state = "WorkComplete" ->
               /\ menubar' = [m EXCEPT !.pomodoro_state = "OnBreak",
                                       !.pomodoro_interval_start = Some(now)]
               /\ UNCHANGED dbVars
          [] m.pomodoro_state = "BreakComplete" ->
               /\ db_seq < MaxEntries
               /\ LET ins == insert(db_entries, db_seq, resume_entry(m, now))
                      c == resume_cycles(m.pomodoro_cycles_completed,
                                         m.pomodoro_config)
                  IN IF f = 1
                     THEN /\ menubar' =
                               [m EXCEPT !.pomodoro_cycles_completed = c]
                          /\ UNCHANGED dbVars
                     ELSE /\ db_entries' = ins.rows
                          /\ db_seq' = ins.seq
                          /\ \E a \in get_active_entry(ins.rows) :
                               menubar' =
                                 [m EXCEPT
                                    !.pomodoro_cycles_completed = c,
                                    !.current_entry = a,
                                    !.pomodoro_state = "Working",
                                    !.pomodoro_interval_start = Some(now)]
                          /\ UNCHANGED db_pomodoro
          [] m.pomodoro_state = "OnBreak" -> UNCHANGED <<menubar, dbVars>>
          [] OTHER ->
               IF m.current_entry # None
               THEN /\ \E o \in stop_active_timer(db_entries, now, 0) :
                         /\ db_entries' = o.rows
                         /\ menubar' =
                              IF o.res = "Some"
                              THEN [m EXCEPT !.current_entry = None,
                                             !.pomodoro_state = "Idle",
                                             !.pomodoro_interval_start = None,
                                             !.pomodoro_cycles_completed = 0]
                              ELSE m
                    /\ UNCHANGED <<db_seq, db_pomodoro>>
               ELSE /\ db_seq < MaxEntries
                    /\ LET project == IF m.recent_projects # <<>>
                                      THEN m.recent_projects[1] ELSE Work
                           ins == insert(db_entries, db_seq,
                                         Entry(0, project, WorkSession, now,
                                               None, FALSE))
                       IN IF f = 1
                          THEN UNCHANGED <<menubar, dbVars>>
                          ELSE /\ db_entries' = ins.rows
                               /\ db_seq' = ins.seq
                               /\ \E a \in get_active_entry(ins.rows),
                                     r \in recent_projects(ins.rows) :
                                    menubar' =
                                      [m EXCEPT
                                         !.current_entry = a,
                                         !.recent_projects = r,
                                         !.pomodoro_last_project = Some(project),
                                         !.pomodoro_last_description =
                                           Some(WorkSession),
                                         !.pomodoro_state =
                                           IF m.pomodoro_config.enabled
                                           THEN "Working" ELSE @,
                                         !.pomodoro_interval_start =
                                           IF m.pomodoro_config.enabled
                                           THEN Some(now) ELSE @]
                               /\ UNCHANGED db_pomodoro
  /\ last' = "HotKey"
  /\ UNCHANGED <<invoiceVars, db_projects, formVars, notified>>
  /\ err' = (f = 1)
  /\ UNCHANGED <<now, appVars, pending>>


\* The wall clock advances between two handlers
Advance ==
  /\ pending = None
  /\ now < MaxTime
  /\ now' = now + 1
  /\ last' = "Advance"
  /\ UNCHANGED outsideVars
  /\ err' = FALSE
  /\ UNCHANGED <<dbVars, appVars, pending>>

\* One session on a reliable store: timer, Pomodoro and the clock
Next ==
  \/ StartTimer(0)
  \/ StopTimer(0)
  \/ \E c \in Chars : UpdateProjectInput(c)
  \/ DeleteProjectChar
  \/ Tick(0, 0)
  \/ RefreshEntries(0)
  \/ RefreshActiveTimer(0)
  \/ TogglePomodoroMode(0)
  \/ AcknowledgePomodoro
  \/ Advance

Spec == Init /\ [][Next]_vars

\* tui/mod.rs: run_app, one turn of the loop on a reliable store.  A key is
\* read and the message handle_key makes of it is handled, or the poll times
\* out and Tick is handled; a follow-up is handled before the next turn.
NextEdit ==
  \/ <<"EnterInputMode", "EditingProject">> \in handle_key
       /\ EnterInputMode("EditingProject")
  \/ <<"UpdateProjectInput", "A">> \in handle_key /\ UpdateProjectInput("A")
  \/ <<"StartTimer">> \in handle_key /\ StartTimer(0)
  \/ <<"StopTimer">> \in handle_key /\ StopTimer(0)
  \/ \E sc \in {"Timer", "Entries"} :
       <<"SwitchScreen", sc>> \in handle_key /\ SwitchScreen(sc)
  \/ \E id \in 1 .. MaxEntries :
       <<"DeleteEntry", id>> \in handle_key /\ DeleteEntry(id)
  \/ <<"ConfirmDelete">> \in handle_key /\ ConfirmDelete(0)
  \/ <<"CancelDelete">> \in handle_key /\ CancelDelete
  \/ \E id \in 1 .. MaxEntries :
       <<"EditEntry", id>> \in handle_key /\ EditEntry(id)
  \/ <<"EditNextField">> \in handle_key /\ EditNextField
  \/ <<"EditPrevField">> \in handle_key /\ EditPrevField
  \/ <<"EditFieldBackspace">> \in handle_key /\ edit_field = "End"
       /\ EditFieldBackspace
  \/ <<"SaveEditEntry">> \in handle_key /\ SaveEditEntry(0)
  \/ <<"CancelEditEntry">> \in handle_key /\ CancelEditEntry
  \/ <<"ToggleBilledFilter">> \in handle_key /\ ToggleBilledFilter
  \/ Tick(0, 0)
  \/ RefreshEntries(0)
  \/ RefreshActiveTimer(0)
  \/ Advance

SpecEdit == Init /\ [][NextEdit]_vars

\* One session, message by message, on the delete flow: entries are started
\* and stopped, an id is named, confirmed or cancelled, the screen switched.
\* f = 1: the DELETE fails.
NextDelete ==
  \/ UpdateProjectInput("A")
  \/ StartTimer(0)
  \/ StopTimer(0)
  \/ \E sc \in {"Timer", "Entries"} : SwitchScreen(sc)
  \/ \E id \in 1 .. MaxEntries : DeleteEntry(id)
  \/ \E f \in 0 .. 1 : ConfirmDelete(f)
  \/ CancelDelete
  \/ RefreshEntries(0)
  \/ RefreshActiveTimer(0)

SpecDelete == Init /\ [][NextDelete]_vars

\* The buffer of a field of the Pomodoro form
pomodoro_input(field) ==
  CASE field = "WorkDuration" -> pomodoro_work_input
    [] field = "ShortBreak" -> pomodoro_short_break_input
    [] field = "LongBreak" -> pomodoro_long_break_input
    [] field = "Cycles" -> pomodoro_cycles_input
    [] OTHER -> <<>>

\* The value of DefaultPomodoroConfig a field of the Pomodoro form shows
pomodoro_default(field) ==
  CASE field = "WorkDuration" -> DefaultPomodoroConfig.work_duration
    [] field = "ShortBreak" -> DefaultPomodoroConfig.short_break
    [] field = "LongBreak" -> DefaultPomodoroConfig.long_break
    [] field = "Cycles" -> DefaultPomodoroConfig.cycles_before_long
    [] OTHER -> 0

\* The operator edits one setting at a time: the buffers of the fields out
\* of focus show their defaults
OneFieldEdited ==
  \A g \in {"WorkDuration", "ShortBreak", "LongBreak", "Cycles"} \ {pomodoro_field} :
    pomodoro_input(g) = to_string(pomodoro_default(g))

\* tui/mod.rs: run_app on the Pomodoro screen, on a reliable store, gated by
\* handle_key: the operator moves over the form (which opens the field moved
\* to), types "0", the letter x, or "3" as the first character, erases, saves
\* or cancels
NextForm ==
  \/ \E sc \in {"Timer", "Pomodoro"} :
       <<"SwitchScreen", sc>> \in handle_key /\ SwitchScreen(sc)
  \/ <<"PomodoroNextField">> \in handle_key /\ PomodoroNextField
  \/ <<"PomodoroPrevField">> \in handle_key /\ PomodoroPrevField
  \/ <<"TogglePomodoroMode">> \in handle_key /\ TogglePomodoroMode(0)
  \/ \E c \in {"0", "3", Junk} :
       /\ <<"PomodoroFieldInput", c>> \in handle_key
       /\ OneFieldEdited
       /\ c = "3" => pomodoro_input(pomodoro_field) = <<>>
       /\ PomodoroFieldInput(c)
  \/ <<"PomodoroFieldBackspace">> \in handle_key /\ OneFieldEdited
       /\ PomodoroFieldBackspace
  \/ <<"SavePomodoroConfig">> \in handle_key /\ SavePomodoroConfig(0)
  \/ <<"CancelPomodoroEdit">> \in handle_key /\ CancelPomodoroEdit

SpecForm == Init /\ [][NextForm]_vars

\* The session with the keys that type into the start and end buffers of the
\* edit form, on a reliable store, gated by handle_key
NextEditTime ==
  \/ <<"EnterInputMode", "EditingProject">> \in handle_key
       /\ EnterInputMode("EditingProject")
  \/ <<"UpdateProjectInput", "A">> \in handle_key /\ UpdateProjectInput("A")
  \/ <<"StartTimer">> \in handle_key /\ StartTimer(0)
  \/ <<"StopTimer">> \in handle_key /\ StopTimer(0)
  \/ \E sc \in {"Timer", "Entries"} :
       <<"SwitchScreen", sc>> \in handle_key /\ SwitchScreen(sc)
  \/ <<"EditEntry", 1>> \in handle_key /\ EditEntry(1)
  \/ <<"EditNextField">> \in handle_key /\ EditNextField
  \/ <<"EditFieldBackspace">> \in handle_key
       /\ edit_field \in {"Start", "End"} /\ EditFieldBackspace
  \/ \E c \in {"0", "1", Junk} :
       /\ <<"EditFieldInput", c>> \in handle_key
       /\ edit_field \in {"Start", "End"}
       /\ EditFieldInput(c)
  \/ <<"SaveEditEntry">> \in handle_key /\ SaveEditEntry(0)
  \/ RefreshEntries(0)
  \/ RefreshActiveTimer(0)
  \/ Advance

SpecEditTime == Init /\ [][NextEditTime]_vars

\* Db::delete run by another process on the same store (a second session
\* that confirms a deletion): the row of that id goes
OtherSessionDelete(id) ==
  /\ delete(db_entries, id).found
  /\ db_entries' = delete(db_entries, id).rows
  /\ err' = FALSE
  /\ last' = "OtherSessionDelete"
  /\ UNCHANGED outsideVars
  /\ UNCHANGED <<now, db_seq, db_pomodoro, appVars, pending>>

\* The session that lists, edits and deletes entries, gated by handle_key, and
\* a second session that deletes entries
NextVanish ==
  \/ <<"EnterInputMode", "EditingProject">> \in handle_key
       /\ EnterInputMode("EditingProject")
  \/ <<"UpdateProjectInput", "A">> \in handle_key /\ UpdateProjectInput("A")
  \/ <<"StartTimer">> \in handle_key /\ StartTimer(0)
  \/ <<"StopTimer">> \in handle_key /\ StopTimer(0)
  \/ \E sc \in {"Timer", "Entries"} :
       <<"SwitchScreen", sc>> \in handle_key /\ SwitchScreen(sc)
  \/ \E id \in 1 .. MaxEntries :
       <<"DeleteEntry", id>> \in handle_key /\ DeleteEntry(id)
  \/ <<"ConfirmDelete">> \in handle_key /\ ConfirmDelete(0)
  \/ \E id \in 1 .. MaxEntries :
       <<"EditEntry", id>> \in handle_key /\ EditEntry(id)
  \/ <<"SaveEditEntry">> \in handle_key /\ SaveEditEntry(0)
  \/ RefreshEntries(0)
  \/ RefreshActiveTimer(0)
  \/ Advance
  \/ \E id \in 1 .. MaxEntries : OtherSessionDelete(id)

SpecVanish == Init /\ [][NextVanish]_vars

\* The commands start, stop and add run from a shell on a reliable store
NextAdd ==
  \/ \E p \in {<<"A">>, <<"B">>}, h \in 0 .. MaxHalfHours :
       CliAdd(p, WorkSession, h)
  \/ CliStart(<<"A">>, 0)
  \/ CliStop(0)
  \/ Advance

SpecAdd == Init /\ [][NextAdd]_vars

\* tui/mod.rs: run_app, gated by handle_key, with every modelled handler
\* that returns a follow-up, and `meter rate A 100` run from a shell
NextPump ==
  \/ <<"EnterInputMode", "EditingProject">> \in handle_key
       /\ EnterInputMode("EditingProject")
  \/ <<"UpdateProjectInput", "A">> \in handle_key /\ UpdateProjectInput("A")
  \/ <<"StartTimer">> \in handle_key /\ StartTimer(0)
  \/ <<"StopTimer">> \in handle_key /\ StopTimer(0)
  \/ \E sc \in {"Timer", "Entries", "Projects"} :
       <<"SwitchScreen", sc>> \in handle_key /\ SwitchScreen(sc)
  \/ \E id \in 1 .. MaxEntries :
       <<"DeleteEntry", id>> \in handle_key /\ DeleteEntry(id)
  \/ <<"ConfirmDelete">> \in handle_key /\ ConfirmDelete(0)
  \/ \E id \in 1 .. MaxEntries :
       <<"EditEntry", id>> \in handle_key /\ EditEntry(id)
  \/ <<"SaveEditEntry">> \in handle_key /\ SaveEditEntry(0)
  \/ <<"ToggleBilledFilter">> \in handle_key /\ ToggleBilledFilter
  \/ \E id \in 1 .. MaxEntries :
       <<"MarkEntryBilled", id>> \in handle_key /\ MarkEntryBilled(id, 0)
  \/ \E id \in 1 .. MaxEntries :
       <<"UnbillEntry", id>> \in handle_key /\ UnbillEntry(id, 0)
  \/ <<"ClearProjectRate", <<"A">>>> \in handle_key
       /\ ClearProjectRate(<<"A">>, 0)
  \/ Tick(0, 0)
  \/ RefreshEntries(0)
  \/ RefreshActiveTimer(0)
  \/ RefreshProjects(0)
  \/ CliRate(<<"A">>, 100)

SpecPump == Init /\ [][NextPump]_vars

\* The session and the CLI of another process on one reliable store
NextTwo ==
  \/ UpdateProjectInput("A")
  \/ StartTimer(0)
  \/ StopTimer(0)
  \/ Tick(0, 0)
  \/ RefreshEntries(0)
  \/ RefreshActiveTimer(0)
  \/ TogglePomodoroMode(0)
  \/ AcknowledgePomodoro
  \/ Advance
  \/ CliStart(<<"B">>, 0)
  \/ CliStop(0)

SpecTwo == Init /\ [][NextTwo]_vars

\* The race of two processes, with the session's loop running on: a poll
\* that times out is followed by Tick, a follow-up is handled at once.
NextRace ==
  \/ UpdateProjectInput("A")
  \/ StartTimer(0)
  \/ StopTimer(0)
  \/ Tick(0, 0)
  \/ RefreshEntries(0)
  \/ RefreshActiveTimer(0)
  \/ CliStart(<<"B">>, 0)
  \/ CliStop(0)
  \/ Advance

SpecTwoFair ==
  /\ Init
  /\ [][NextRace]_vars
  /\ WF_vars(Tick(0, 0))
  /\ WF_vars(RefreshEntries(0))
  /\ WF_vars(RefreshActiveTimer(0))

\* One session on a store whose statements can fail
NextFail ==
  \/ UpdateProjectInput("A")
  \/ \E f \in 0 .. 2 : StartTimer(f)
  \/ \E f \in 0 .. 3 : StopTimer(f)
  \/ \E fr \in 0 .. 1, fs \in 0 .. 3 : Tick(fr, fs)
  \/ \E fr \in 0 .. 1 : RefreshEntries(fr)
  \/ \E fr \in 0 .. 1 : RefreshActiveTimer(fr)
  \/ TogglePomodoroMode(0)
  \/ AcknowledgePomodoro
  \/ Advance

SpecFail == Init /\ [][NextFail]_vars

\* main.rs: main, over a pomodoro_config row whose cycles_before_long was
\* saved as n
InitCycle ==
  /\ now = 0
  /\ db_entries = {}
  /\ db_seq = 0
  /\ \E n \in 1 .. MaxCycles :
       db_pomodoro = [DefaultPomodoroConfig EXCEPT !.cycles_before_long = n]
  /\ AppNew
  /\ menubar \in MenubarInit(db_entries, db_pomodoro)
  /\ invoice = NoInvoice
  /\ db_projects = {}
  /\ db_invoices = {}
  /\ invoice_files = <<>>
  /\ in_flight = [p \in Processes |-> NoGeneration]
  /\ project_rates = <<>>
  /\ FormNew
  /\ notified = None
  /\ due = NoDue
  /\ pending = None
  /\ last = "Init"
  /\ err = FALSE

\* The wall clock advances, in a run long enough for several work periods
AdvanceCycle ==
  /\ pending = None
  /\ now < MaxCycleTime
  /\ now' = now + 1
  /\ last' = "Advance"
  /\ UNCHANGED outsideVars
  /\ err' = FALSE
  /\ UNCHANGED <<dbVars, appVars, pending>>

\* tui/mod.rs: run_app on the Timer screen: work periods and breaks, one
\* after the other
NextCycle ==
  \/ <<"EnterInputMode", "EditingProject">> \in handle_key
       /\ EnterInputMode("EditingProject")
  \/ <<"UpdateProjectInput", "A">> \in handle_key /\ UpdateProjectInput("A")
  \/ <<"StartTimer">> \in handle_key /\ StartTimer(0)
  \/ <<"StopTimer">> \in handle_key /\ StopTimer(0)
  \/ <<"TogglePomodoroMode">> \in handle_key /\ TogglePomodoroMode(0)
  \/ <<"AcknowledgePomodoro">> \in handle_key /\ AcknowledgePomodoro
  \/ Tick(0, 0)
  \/ RefreshEntries(0)
  \/ RefreshActiveTimer(0)
  \/ AdvanceCycle

SpecCycle == InitCycle /\ [][NextCycle]_vars

\* tui/mod.rs: run_app on the Timer screen, gated by handle_key, and
\* `meter stop` run from a shell
NextCycleStop ==
  \/ <<"EnterInputMode", "EditingProject">> \in handle_key
       /\ EnterInputMode("EditingProject")
  \/ <<"UpdateProjectInput", "A">> \in handle_key /\ UpdateProjectInput("A")
  \/ <<"StartTimer">> \in handle_key /\ StartTimer(0)
  \/ <<"StopTimer">> \in handle_key /\ StopTimer(0)
  \/ <<"TogglePomodoroMode">> \in handle_key /\ TogglePomodoroMode(0)
  \/ <<"AcknowledgePomodoro">> \in handle_key /\ AcknowledgePomodoro
  \/ Tick(0, 0)
  \/ RefreshEntries(0)
  \/ RefreshActiveTimer(0)
  \/ Advance
  \/ CliStop(0)

SpecCycleStop == Init /\ [][NextCycleStop]_vars

\* tui/mod.rs: run_app on the Timer screen, one process on a reliable store,
\* with the clock
NextScheduler ==
  \/ <<"EnterInputMode", "EditingProject">> \in handle_key
       /\ EnterInputMode("EditingProject")
  \/ <<"UpdateProjectInput", "A">> \in handle_key /\ UpdateProjectInput("A")
  \/ <<"StartTimer">> \in handle_key /\ StartTimer(0)
  \/ <<"StopTimer">> \in handle_key /\ StopTimer(0)
  \/ <<"TogglePomodoroMode">> \in handle_key /\ TogglePomodoroMode(0)
  \/ <<"AcknowledgePomodoro">> \in handle_key /\ AcknowledgePomodoro
  \/ Tick(0, 0)
  \/ RefreshEntries(0)
  \/ RefreshActiveTimer(0)
  \/ Advance

\* The same loop with its scheduling: a follow-up is handled in the turn that
\* produced it, a poll that times out is followed by Tick, and time passes
SpecScheduler ==
  /\ Init
  /\ [][NextScheduler]_vars
  /\ WF_vars(Tick(0, 0))
  /\ WF_vars(RefreshEntries(0))
  /\ WF_vars(RefreshActiveTimer(0))
  /\ WF_vars(Advance)

\* tui/mod.rs: run_tui after the process was ended and started again: main
\* syncs the projects and App::new builds a new session over the store as it is
Restart ==
  /\ UNCHANGED <<now, dbVars>>
  /\ \E a \in refresh_active_timer(db_entries, 0) :
       /\ active_entry' = a
       /\ IF a # None /\ db_pomodoro.enabled
          THEN /\ pomodoro_state' = "Working"
               /\ pomodoro_interval_start' = Some(a[1].start)
          ELSE /\ pomodoro_state' = "Idle"
               /\ pomodoro_interval_start' = None
  /\ current_screen' = "Timer"
  /\ project_input' = <<>>
  /\ description_input' = WorkSession
  /\ input_mode' = "Normal"
  /\ status_message' = None
  /\ show_only_unbilled' = FALSE
  /\ entries' = refresh_entries(db_entries, FALSE)
  /\ confirm_delete' = None
  /\ editing_entry' = None
  /\ edit_field' = "Project"
  /\ edit_project_input' = <<>>
  /\ edit_description_input' = <<>>
  /\ edit_start_input' = <<>>
  /\ edit_end_input' = <<>>
  /\ pomodoro_config' = db_pomodoro
  /\ pomodoro_cycles_completed' = 0
  /\ pomodoro_last_project' = None
  /\ pomodoro_last_description' = None
  /\ breaks_started' = 0
  /\ pending' = None
  /\ last' = "Restart"
  /\ db_projects' = sync_projects_from_entries(db_entries, db_projects)
  /\ projects' = {}
  /\ pomodoro_field' = "Enabled"
  /\ pomodoro_work_input' = <<>>
  /\ pomodoro_short_break_input' = <<>>
  /\ pomodoro_long_break_input' = <<>>
  /\ pomodoro_cycles_input' = <<>>
  /\ UNCHANGED <<notified, menubar, invoiceVars>>
  /\ err' = FALSE

\* One session on a reliable store, ended and started again at any moment
NextRestart ==
  \/ Next
  \/ Restart

SpecRestart == Init /\ [][NextRestart]_vars

\* menubar.rs: the menu-bar companion on a reliable store, its menu items
\* and hotkey, beside `meter start` and `meter stop` run from a shell
NextMenubar ==
  \/ MenubarTick
  \/ MenuEvent(<<"pomodoro">>, 0)
  \/ MenuEvent(<<"stop">>, 0)
  \/ MenuEvent(<<"project:", <<"A">> >>, 0)
  \/ HotKey(0)
  \/ CliStart(<<"B">>, 0)
  \/ CliStop(0)
  \/ Advance

SpecMenubar == Init /\ [][NextMenubar]_vars

\* The entries handed to write_invoice: up to MaxInvoiceEntries rows of two
\* projects, running or ended after 30 seconds or 1, 2 or 3 hours
MaxInvoiceEntries == 3
InvoiceProjects == {<<"A">>, <<"B">>}
InvoiceEnds == {None, Some(1)} \cup {Some(h * Hour) : h \in 1 .. 3}
InvoiceEntries ==
  UNION {{[i \in 1 .. n |->
             Entry(i, f[i][1], WorkSession, 0, f[i][2], TRUE)]
            : f \in [1 .. n -> InvoiceProjects \X InvoiceEnds]}
           : n \in 0 .. MaxInvoiceEntries}
InvoiceRates ==
  UNION {[D -> {50, 100}] : D \in SUBSET InvoiceProjects}

\* main.rs: Commands::Invoice builds InvoiceParams and calls write_invoice
InitInvoice ==
  /\ now = 0
  /\ db_entries = {}
  /\ db_seq = 0
  /\ db_pomodoro = DefaultPomodoroConfig
  /\ AppNew
  /\ menubar \in MenubarInit(db_entries, db_pomodoro)
  /\ \E es \in InvoiceEntries, r \in InvoiceRates, t \in {0, 10} :
       invoice = [params |-> [entries |-> es, project_rates |-> r,
                              tax_rate |-> t],
                  result |-> None]
  /\ db_projects = {}
  /\ db_invoices = {}
  /\ invoice_files = <<>>
  /\ in_flight = [p \in Processes |-> NoGeneration]
  /\ project_rates = <<>>
  /\ FormNew
  /\ notified = None
  /\ due = NoDue
  /\ pending = None
  /\ last = "Init"
  /\ err = FALSE

\* invoice.rs: write_invoice returns
WriteInvoice ==
  /\ invoice.result = None
  /\ \E order \in key_orders(entries_by_project(invoice.params.entries)) :
       invoice' = [invoice EXCEPT
                     !.result = Some(write_invoice(invoice.params, order))]
  /\ last' = "WriteInvoice"
  /\ err' = FALSE
  /\ UNCHANGED <<now, dbVars, appVars, pending, menubar, db_projects, formVars, notified,
                 db_invoices, invoice_files, project_rates, due, in_flight>>

NextInvoice == WriteInvoice

SpecInvoice == InitInvoice /\ [][NextInvoice]_vars

\* tui/mod.rs: run_app on the Timer and Entries screens, starting, stopping
\* and billing, beside `meter bill` run from a shell; a reliable store
NextBill ==
  \/ <<"EnterInputMode", "EditingProject">> \in handle_key
       /\ EnterInputMode("EditingProject")
  \/ <<"UpdateProjectInput", "A">> \in handle_key /\ UpdateProjectInput("A")
  \/ <<"StartTimer">> \in handle_key /\ StartTimer(0)
  \/ <<"StopTimer">> \in handle_key /\ StopTimer(0)
  \/ \E sc \in {"Timer", "Entries"} :
       <<"SwitchScreen", sc>> \in handle_key /\ SwitchScreen(sc)
  \/ <<"ToggleBilledFilter">> \in handle_key /\ ToggleBilledFilter
  \/ \E id \in 1 .. MaxEntries :
       <<"MarkEntryBilled", id>> \in handle_key /\ MarkEntryBilled(id, 0)
  \/ \E id \in 1 .. MaxEntries :
       <<"UnbillEntry", id>> \in handle_key /\ UnbillEntry(id, 0)
  \/ Tick(0, 0)
  \/ RefreshEntries(0)
  \/ RefreshActiveTimer(0)
  \/ \E id \in {None} \cup {Some(i) : i \in 1 .. MaxEntries} : CliBill(id, 0)
  \/ Advance

SpecBill == Init /\ [][NextBill]_vars

\* App::generate_invoice as another process sees it, statement by statement.
\* First the reads: list_by_date_range and get_next_invoice_number.
GenerateInvoiceRead ==
  /\ pending = None
  /\ in_flight["session"].pc = "idle"
  /\ \E es \in by_start_desc(list_by_date_range(db_entries, 0, now,
                                                Some(TRUE))) :
       in_flight' =
         [in_flight EXCEPT !["session"] =
            [pc |-> "read",
             invoice_number |-> get_next_invoice_number(db_invoices),
             params |-> [entries |-> es, project_rates |-> project_rates,
                         tax_rate |-> DefaultTaxRate],
             result |-> None, recorded |-> "none"]]
  /\ last' = "GenerateInvoice"
  /\ err' = FALSE
  /\ UNCHANGED <<now, dbVars, appVars, pending, menubar, db_projects,
                 formVars, notified, invoice, db_invoices, invoice_files,
                 project_rates, due>>

\* App::generate_invoice, `match write_invoice(&params)`: the rendering and
\* the file.  fw = 1: write_invoice fails to render.
GenerateInvoiceWrite(fw) ==
  /\ in_flight["session"].pc = "read"
  /\ Len(invoice_files) < MaxInvoices
  /\ LET g == in_flight["session"]
     IN \E order \in key_orders(entries_by_project(g.params.entries)) :
          LET result == write_invoice(g.params, order)
          IN IF fw = 0
             THEN /\ invoice' = [params |-> g.params, result |-> Some(result)]
                  /\ invoice_files' = Append(invoice_files, g.invoice_number)
                  /\ in_flight' =
                       [in_flight EXCEPT !["session"] =
                          [g EXCEPT !.pc = "rendered",
                                    !.result = Some(result)]]
                  /\ UNCHANGED status_message
             ELSE /\ invoice' = [params |-> g.params, result |-> None]
                  /\ in_flight' =
                       [in_flight EXCEPT !["session"] =
                          [NoGeneration EXCEPT
                             !.invoice_number = g.invoice_number]]
                  /\ status_message' = Status("Failed to write invoice", 0)
                  /\ UNCHANGED invoice_files
  /\ last' = "GenerateInvoice"
  /\ err' = FALSE
  /\ UNCHANGED <<now, dbVars, timerVars, listVars, editVars, pomoVars, pending,
                 menubar, db_projects, formVars, notified, db_invoices,
                 project_rates, due>>

\* App::generate_invoice, `let _ = db.record_invoice(&invoice_record)` and
\* the status: the result of the insert is dropped
GenerateInvoiceRecord ==
  /\ in_flight["session"].pc = "rendered"
  /\ LET g == in_flight["session"]
         rec == record_invoice(
                  db_invoices,
                  Invoice(g.invoice_number, g.result[1].subtotal,
                          g.params.tax_rate, g.result[1].tax_amount,
                          g.result[1].total),
                  0)
     IN /\ db_invoices' = rec.rows
        /\ in_flight' =
             [in_flight EXCEPT !["session"] =
                [NoGeneration EXCEPT
                   !.invoice_number = g.invoice_number,
                   !.recorded = IF rec.ok THEN "Ok" ELSE "Err"]]
        /\ status_message' = Status("Invoice written", g.invoice_number)
        /\ err' = ~rec.ok
  /\ last' = "GenerateInvoice"
  /\ UNCHANGED <<now, dbVars, timerVars, listVars, editVars, pomoVars, pending,
                 menubar, db_projects, formVars, notified, invoice,
                 invoice_files, project_rates, due>>

\* main.rs: Commands::Invoice for the current month as another process sees
\* it, statement by statement.  First the sync of main and the reads: the
\* billed entries, the rates of their projects and get_next_invoice_number;
\* with no billed entry the command returns.
CliInvoiceRead ==
  /\ in_flight["shell"].pc = "idle"
  /\ LET project_rows == sync_projects_from_entries(db_entries, db_projects)
         billed == {e \in list(db_entries, Some(TRUE)) : e.end # None}
     IN /\ db_projects' = project_rows
        /\ IF billed = {}
           THEN UNCHANGED in_flight
           ELSE \E es \in by_start_desc(billed) :
                  in_flight' =
                    [in_flight EXCEPT !["shell"] =
                       [pc |-> "read",
                        invoice_number |->
                          get_next_invoice_number(db_invoices),
                        params |->
                          [entries |-> es,
                           project_rates |->
                             list_projects(
                               {p \in project_rows :
                                  \E e \in billed : e.project = p.name}),
                           tax_rate |-> DefaultTaxRate],
                        result |-> None, recorded |-> "none"]]
  /\ last' = "CliInvoice"
  /\ err' = FALSE
  /\ UNCHANGED <<now, dbVars, appVars, pending, menubar, formVars, notified,
                 invoice, db_invoices, invoice_files, project_rates, due>>

\* main.rs: Commands::Invoice, `match write_invoice(&params)`.  fw = 1:
\* write_invoice fails to render and the command ends.
CliInvoiceWrite(fw) ==
  /\ in_flight["shell"].pc = "read"
  /\ Len(invoice_files) < MaxInvoices
  /\ LET g == in_flight["shell"]
     IN \E order \in key_orders(entries_by_project(g.params.entries)) :
          LET result == write_invoice(g.params, order)
          IN IF fw = 0
             THEN /\ invoice' = [params |-> g.params, result |-> Some(result)]
                  /\ invoice_files' = Append(invoice_files, g.invoice_number)
                  /\ in_flight' =
                       [in_flight EXCEPT !["shell"] =
                          [g EXCEPT !.pc = "rendered",
                                    !.result = Some(result)]]
             ELSE /\ invoice' = [params |-> g.params, result |-> None]
                  /\ in_flight' =
                       [in_flight EXCEPT !["shell"] =
                          [NoGeneration EXCEPT
                             !.invoice_number = g.invoice_number]]
                  /\ UNCHANGED invoice_files
  /\ last' = "CliInvoice"
  /\ err' = FALSE
  /\ UNCHANGED <<now, dbVars, appVars, pending, menubar, db_projects,
                 formVars, notified, db_invoices, project_rates, due>>

\* main.rs: Commands::Invoice,
\* `db.record_invoice(&invoice_record).expect("Failed to record invoice")`:
\* the command ends either way, with a panic when the insert was rejected
CliInvoiceRecord ==
  /\ in_flight["shell"].pc = "rendered"
  /\ LET g == in_flight["shell"]
         rec == record_invoice(
                  db_invoices,
                  Invoice(g.invoice_number, g.result[1].subtotal,
                          g.params.tax_rate, g.result[1].tax_amount,
                          g.result[1].total),
                  0)
     IN /\ db_invoices' = rec.rows
        /\ in_flight' =
             [in_flight EXCEPT !["shell"] =
                [NoGeneration EXCEPT
                   !.invoice_number = g.invoice_number,
                   !.recorded = IF rec.ok THEN "Ok" ELSE "Err"]]
        /\ err' = ~rec.ok
  /\ last' = "CliInvoice"
  /\ UNCHANGED <<now, dbVars, appVars, pending, menubar, db_projects,
                 formVars, notified, invoice, invoice_files, project_rates,
                 due>>

\* The session on the Invoice screen and `meter invoice` run from a shell,
\* each generation interleaved statement by statement with the other
\* process, beside the commands start, stop and bill; a reliable store and
\* no time passing
NextInvoiceRace ==
  \/ in_flight["session"].pc = "idle" /\ SwitchScreen("Invoice")
  \/ current_screen = "Invoice" /\ GenerateInvoiceRead
  \/ GenerateInvoiceWrite(0)
  \/ GenerateInvoiceRecord
  \/ CliInvoiceRead
  \/ CliInvoiceWrite(0)
  \/ CliInvoiceRecord
  \/ CliStart(<<"A">>, 0)
  \/ CliStop(0)
  \/ CliBill(None, 0)

SpecInvoiceRace == Init /\ [][NextInvoiceRace]_vars

\* tui/mod.rs: run_app on a reliable store, the operator going to the
\* Invoice screen and generating invoices in the mode CurrentMonth, beside
\* the commands start, stop, bill and rate run from a shell
NextNumbering ==
  \/ \E sc \in {"Timer", "Invoice"} : SwitchScreen(sc)
  \/ current_screen = "Invoice" /\ GenerateInvoice(0, 0, 0)
  \/ CliStart(<<"A">>, 0)
  \/ CliStop(0)
  \/ CliBill(None, 0)
  \/ CliRate(<<"A">>, 100)
  \/ Advance

SpecNumbering == Init /\ [][NextNumbering]_vars

\* The session on the Invoice screen and `meter invoice` run from a shell,
\* with a renderer that may fail (no font, no directory, no space), beside
\* the commands start, stop and bill; a reliable store
NextRender ==
  \/ SwitchScreen("Invoice")
  \/ \E fw \in 0 .. 1 : current_screen = "Invoice" /\ GenerateInvoice(0, fw, 0)
  \/ \E fw \in 0 .. 1 : CliInvoice(fw)
  \/ CliStart(<<"A">>, 0)
  \/ CliStop(0)
  \/ CliBill(None, 0)
  \/ Advance

SpecRender == Init /\ [][NextRender]_vars

\* The payment terms handed to calculate_due_date: up to MaxTermPieces of
\* these pieces, one after another
MaxTermPieces == 3
TermPieces ==
  {<<"N", "e", "t", " ", "3", "0">>,
   <<"n", "e", "t", " ", "1", "5">>,
   <<"N", "E", "T", " ", "6", "0">>,
   <<"D", "u", "e", " ", "o", "n", " ", "r", "e", "c", "e", "i", "p", "t">>,
   <<"n", "e", "t", " ">>,
   <<"3", "0">>,
   <<" ">>,
   <<"N", "e", "t">>}

RECURSIVE concat(_)
concat(ps) == IF ps = <<>> THEN <<>> ELSE ps[1] \o concat(Tail(ps))

PaymentTerms ==
  UNION {{concat(ps) : ps \in [1 .. n -> TermPieces]} : n \in 0 .. MaxTermPieces}

\* The days an invoice is issued on, counted from 2026-01-01: the first and
\* the last of a year, and days 30, 15 and 60 days before the end of a month
\* or a year
IssueDays == {0, 29, 58, 319, 335, 350, 364}

\* invoice.rs: write_invoice calls calculate_due_date with the default
\* payment terms of the settings
InitDue ==
  /\ now = 0
  /\ db_entries = {}
  /\ db_seq = 0
  /\ db_pomodoro = DefaultPomodoroConfig
  /\ AppNew
  /\ menubar \in MenubarInit(db_entries, db_pomodoro)
  /\ invoice = NoInvoice
  /\ db_projects = {}
  /\ db_invoices = {}
  /\ invoice_files = <<>>
  /\ in_flight = [p \in Processes |-> NoGeneration]
  /\ project_rates = <<>>
  /\ FormNew
  /\ notified = None
  /\ \E t \in PaymentTerms, d \in IssueDays :
       due = [payment_terms |-> t, today |-> d, result |-> None]
  /\ pending = None
  /\ last = "Init"
  /\ err = FALSE

\* invoice.rs: calculate_due_date returns
CalculateDueDate ==
  /\ due.result = None
  /\ due' = [due EXCEPT
               !.result = Some(calculate_due_date(due.payment_terms, due.today))]
  /\ last' = "CalculateDueDate"
  /\ err' = FALSE
  /\ UNCHANGED <<now, dbVars, appVars, pending, menubar, db_projects, formVars, notified,
                 invoice, db_invoices, invoice_files, project_rates, in_flight>>

NextDue == CalculateDueDate

SpecDue == InitDue /\ [][NextDue]_vars







\* ----------------------------------------------------------------- claims
\* The rows of the store without an end
Active(rows) == {e \in rows : e.end = None}

\* C1: in one process whose chains are pumped to completion, whatever
\* StartTimer, StopTimer and Tick messages are handled, the store never holds
\* more than one Entry whose end is absent.
C1_AtMostOneActive == Cardinality(Active(db_entries)) <= 1

\* C1 witness: a second timer runs after a first one was started and stopped.
C1_SecondTimerRuns ==
  /\ Cardinality(Active(db_entries)) = 1
  /\ \E e \in db_entries : e.end # None
  /\ active_entry # None
  /\ last = "Tick"

\* C2: in one process on a reliable store, after any sequence of session
\* messages (edits and deletions of entries included) no two stored Entries
\* lack an end.  The code breaks it: SaveEditEntry writes end = None for an
\* emptied End buffer whether or not another Entry is running.
C2_NoTwoActive ==
  \A e, g \in db_entries : (e.end = None /\ g.end = None) => e.id = g.id

\* C3: the store does not reject an insert when an active entry already
\* exists: a Start of the session whose mirror shows no active entry, and a
\* Start of the CLI, each add one Entry without an end, however many the
\* store already holds.
C3_StartNotRejected ==
  [][/\ (last' = "StartTimer" /\ pending = None /\ project_input # <<>>
           /\ active_entry = None)
          => Cardinality(Active(db_entries')) = Cardinality(Active(db_entries)) + 1
     /\ (last' = "CliStart" /\ pending' = pending)
          => Cardinality(Active(db_entries')) = Cardinality(Active(db_entries)) + 1
    ]_vars

\* C3 witness: two Entries lack an end, one inserted by each process.
C3_TwoActive ==
  \E e, g \in db_entries :
    /\ e.end = None /\ g.end = None
    /\ e.project = <<"A">> /\ g.project = <<"B">>

\* C4: once a Tick, or one of StartTimer, StopTimer, SaveEditEntry and
\* ConfirmDelete together with its follow-ups, has been handled, the mirror is
\* what get_active_entry returns.  The code breaks it: SaveEditEntry and
\* ConfirmDelete are followed by RefreshEntries only.
C4_MirrorIsStoreActive ==
  (pending = None
     /\ last \in {"Tick", "StartTimer", "StopTimer", "SaveEditEntry", "ConfirmDelete"})
    => active_entry \in get_active_entry(db_entries)

\* C5: when a race has left two Entries without an end and the processes keep
\* ticking, the store eventually holds at most one Entry without an end.  The
\* code breaks it: Tick only reads the active entry.
C5_Recovered ==
  (Cardinality(Active(db_entries)) >= 2) ~> (Cardinality(Active(db_entries)) <= 1)

\* C6: a StartTimer whose precondition fails (empty project buffer, or a
\* mirror that holds an active entry) inserts no Entry, leaves the session
\* (mirror, Pomodoro state, buffers, status message) as it is and returns no
\* follow-up.
C6_RejectedStartIsNoOp ==
  [][(last' = "StartTimer" /\ pending = None
        /\ (project_input = <<>> \/ active_entry # None))
       => (UNCHANGED <<dbVars, appVars>> /\ pending' = None)]_vars

\* C6 witness: StartTimer was handled with a project typed while the mirror
\* held the running entry, and nothing came of it.
C6_StartWhileRunning ==
  /\ last = "StartTimer"
  /\ pending = None
  /\ project_input # <<>>
  /\ active_entry # None
  /\ Cardinality(db_entries) = 1

\* C7: when the store call of StartTimer fails, the session is unchanged, the
\* store holds no Entry as a result and no follow-up is returned.  The code
\* breaks it: start_timer inserts and then re-reads, and a failed re-read
\* leaves the inserted Entry behind.
C7_FailedStartChangesNothing ==
  [][(last' = "StartTimer" /\ pending = None /\ err')
       => (UNCHANGED <<dbVars, appVars>> /\ pending' = None)]_vars

\* C8: StopTimer with an active entry in the mirror and a successful store
\* call writes end = now on the store's active entry (the latest started row
\* without an end), clears the mirror, sets the Pomodoro state to Idle, the
\* interval start to None and the cycle counter to 0, and returns
\* RefreshEntries, whatever the Pomodoro state was.
C8_StopEffect ==
  [][(last' = "StopTimer" /\ pending = None /\ active_entry # None /\ ~err')
       => /\ IF Active(db_entries) = {} THEN db_entries' = db_entries
             ELSE \E a \in Active(db_entries) :
                    /\ \A g \in Active(db_entries) : g.start <= a.start
                    /\ db_entries' = (db_entries \ {a})
                                       \cup {[a EXCEPT !.end = Some(now)]}
          /\ active_entry' = None
          /\ pomodoro_state' = "Idle"
          /\ pomodoro_interval_start' = None
          /\ pomodoro_cycles_completed' = 0
          /\ pending' = Some("RefreshEntries")]_vars

\* C8 witness: a timer was stopped by StopTimer with Pomodoro enabled.
C8_Stopped ==
  /\ last = "StopTimer"
  /\ pending = Some("RefreshEntries")
  /\ pomodoro_config.enabled
  /\ \E e \in db_entries : e.end = Some(now)
  /\ active_entry = None

\* C9: StopTimer with an empty mirror changes neither the session nor the
\* store and is no error, and a stop of the store with no active entry (the
\* CLI's `meter stop`) changes no Entry and is no error.
C9_StopIsIdempotent ==
  [][/\ (last' = "StopTimer" /\ pending = None /\ active_entry = None)
          => (UNCHANGED <<dbVars, appVars>> /\ pending' = None /\ ~err')
     /\ (last' = "CliStop" /\ pending' = pending /\ Active(db_entries) = {})
          => (UNCHANGED <<dbVars, appVars, pending>> /\ ~err')
    ]_vars

\* C9 witness: StopTimer was handled after the timer had been stopped already.
C9_StopAfterStop ==
  /\ last = "StopTimer"
  /\ pending = None
  /\ active_entry = None
  /\ db_entries # {}
  /\ Active(db_entries) = {}
  /\ status_message # Status("Timer stopped", 0)

\* C10: with Pomodoro enabled and state Working, a Tick at which now -
\* interval_start >= work_duration minutes moves the state to WorkComplete,
\* writes end = now on the running entry, clears the mirror and the interval
\* start and remembers the entry's project and description; a Tick before
\* that changes neither the Pomodoro state nor the store.
C10_WorkExpiry ==
  [][(last' = "Tick" /\ pending = None /\ pomodoro_config.enabled
        /\ pomodoro_state = "Working" /\ pomodoro_interval_start # None)
       => IF (now - pomodoro_interval_start[1]) * SecsPerUnit
               >= pomodoro_config.work_duration * 60
          THEN /\ pomodoro_state' = "WorkComplete"
               /\ active_entry' = None
               /\ pomodoro_interval_start' = None
               /\ \A e \in db_entries' : e.end # None
               /\ \A e \in Active(db_entries) :
                    /\ [e EXCEPT !.end = Some(now)] \in db_entries'
                    /\ pomodoro_last_project' = Some(e.project)
                    /\ pomodoro_last_description' = Some(e.description)
          ELSE UNCHANGED <<pomoVars, dbVars>>]_vars

\* C10 witness: the work period ran out and the entry was stopped one work
\* period after its start.
C10_WorkComplete ==
  /\ last = "Tick"
  /\ pomodoro_state = "WorkComplete"
  /\ active_entry = None
  /\ pomodoro_interval_start = None
  /\ \E e \in db_entries :
       /\ e.end = Some(now)
       /\ (now - e.start) * SecsPerUnit = pomodoro_config.work_duration * 60
       /\ pomodoro_last_project = Some(e.project)

C12_ToggleOffResets ==
  [][(last' = "TogglePomodoroMode" /\ pending = None /\ pomodoro_config.enabled)
       => /\ ~pomodoro_config'.enabled
          /\ pomodoro_state' = "Idle"
          /\ pomodoro_interval_start' = None
          /\ pomodoro_cycles_completed' = 0
          /\ UNCHANGED <<db_entries, db_seq, active_entry>>]_vars

\* C12 witness: Pomodoro was turned off and the timer keeps running.
C12_OffWhileRunning ==
  /\ last = "TogglePomodoroMode"
  /\ ~pomodoro_config.enabled
  /\ pomodoro_state = "Idle"
  /\ active_entry # None
  /\ active_entry[1] \in Active(db_entries)

\* C13: a TogglePomodoroMode that turns Pomodoro on while the mirror holds an
\* active entry sets the state Working with interval_start = the time of the
\* toggle; with an empty mirror the Pomodoro state and the interval start are
\* unchanged.
C13_ToggleOnAnchorsAtNow ==
  [][(last' = "TogglePomodoroMode" /\ pending = None /\ ~pomodoro_config.enabled)
       => /\ pomodoro_config'.enabled
          /\ IF active_entry # None
             THEN /\ pomodoro_state' = "Working"
                  /\ pomodoro_interval_start' = Some(now)
             ELSE UNCHANGED <<pomodoro_state, pomodoro_interval_start>>]_vars

\* C13 witness: Pomodoro was turned on after the entry's start, and the work
\* interval starts at the toggle.
C13_OnAfterStart ==
  /\ last = "TogglePomodoroMode"
  /\ pomodoro_config.enabled
  /\ pomodoro_state = "Working"
  /\ active_entry # None
  /\ pomodoro_interval_start = Some(now)
  /\ active_entry[1].start < now

\* C14: once the session has seen at a Tick that the timer it was working on
\* no longer runs (the mirror is empty after the Tick), the Pomodoro state is
\* not Working any more: it is Idle with no interval start.  The code breaks
\* it: Tick re-reads the mirror and leaves the Pomodoro state as it is.
C14_StoppedTimerCollapsesToIdle ==
  (last = "Tick" /\ pending = None /\ active_entry = None
     /\ Active(db_entries) = {})
    => (pomodoro_state # "Working" /\ (pomodoro_state = "Idle"
                                         => pomodoro_interval_start = None))

\* C15: a session constructed at process start is in Pomodoro state Idle with
\* no interval start, whatever the store holds.  The code breaks it: App::new
\* starts in Working, anchored at the entry's start, when the store holds an
\* active entry and Pomodoro is enabled.
C15_StartsIdle ==
  last = "Restart" => (pomodoro_state = "Idle" /\ pomodoro_interval_start = None)

\* C16: AcknowledgePomodoro in WorkComplete moves to OnBreak with
\* interval_start = now; a Tick in OnBreak at which now - interval_start >=
\* the break duration (long when cycles_completed + 1 >= cycles_before_long,
\* else short) moves to BreakComplete and clears interval_start, a Tick before
\* that leaves OnBreak as it is, and neither step changes the store.
C16_BreakInterval ==
  [][/\ (last' = "AcknowledgePomodoro" /\ pending = None
           /\ pomodoro_state = "WorkComplete")
          => /\ pomodoro_state' = "OnBreak"
             /\ pomodoro_interval_start' = Some(now)
             /\ UNCHANGED dbVars
     /\ (last' = "Tick" /\ pending = None /\ pomodoro_state = "OnBreak")
          => IF (now - pomodoro_interval_start[1]) * SecsPerUnit
                  >= 60 * (IF pomodoro_cycles_completed + 1
                                >= pomodoro_config.cycles_before_long
                           THEN pomodoro_config.long_break
                           ELSE pomodoro_config.short_break)
             THEN /\ pomodoro_state' = "BreakComplete"
                  /\ pomodoro_interval_start' = None
                  /\ UNCHANGED dbVars
             ELSE UNCHANGED <<pomodoro_state, pomodoro_interval_start, dbVars>>
    ]_vars

\* C16 witness: a long break has run out at a Tick.
C16_LongBreakComplete ==
  /\ last = "Tick"
  /\ pomodoro_state = "BreakComplete"
  /\ pomodoro_interval_start = None
  /\ pomodoro_cycles_completed + 1 >= pomodoro_config.cycles_before_long
  /\ pomodoro_config.long_break > pomodoro_config.short_break

\* C17: AcknowledgePomodoro in BreakComplete moves to Idle with no interval
\* start, sets the cycle counter to cycles_completed + 1 wrapped to 0 at
\* cycles_before_long, copies the remembered project and description into
\* the input buffers and creates no Entry: store and mirror are unchanged and
\* no follow-up is returned.
C17_AcknowledgeBreakComplete ==
  [][(last' = "AcknowledgePomodoro" /\ pending = None
        /\ pomodoro_state = "BreakComplete")
       => /\ pomodoro_state' = "Idle"
          /\ pomodoro_interval_start' = None
          /\ pomodoro_cycles_completed' =
               IF pomodoro_cycles_completed + 1
                    >= pomodoro_config.cycles_before_long
               THEN 0 ELSE pomodoro_cycles_completed + 1
          /\ project_input' = IF pomodoro_last_project = None THEN project_input
                              ELSE pomodoro_last_project[1]
          /\ description_input' = IF pomodoro_last_description = None
                                  THEN description_input
                                  ELSE pomodoro_last_description[1]
          /\ UNCHANGED <<dbVars, active_entry>>
          /\ pending' = None]_vars

\* C17 witness: BreakComplete was acknowledged; the counter went from 0 to 1,
\* the project is back in its buffer and no timer runs.
C17_ReadyToRestart ==
  /\ last = "AcknowledgePomodoro"
  /\ pomodoro_state = "Idle"
  /\ pomodoro_cycles_completed = 1
  /\ project_input = <<"A">>
  /\ pomodoro_last_project = Some(<<"A">>)
  /\ active_entry = None
  /\ Active(db_entries) = {}

\* C18: in the menu-bar companion, acknowledging BreakComplete (the global
\* hotkey) ends in Idle with the cycle counter incremented, back to 0 at
\* cycles_before_long, and inserts no Entry: the store is as it was and the
\* companion mirrors no running entry.
C18_MenubarAcknowledgeEndsIdle ==
  [][(last' = "HotKey" /\ menubar.pomodoro_state = "BreakComplete")
       => /\ menubar'.pomodoro_state = "Idle"
          /\ menubar'.pomodoro_cycles_completed =
               IF menubar.pomodoro_cycles_completed + 1
                    >= menubar.pomodoro_config.cycles_before_long
               THEN 0 ELSE menubar.pomodoro_cycles_completed + 1
          /\ menubar'.current_entry = None
          /\ UNCHANGED dbVars]_vars

\* The sum of val over the indices in S
RECURSIVE C19_Sum(_, _)
C19_Sum(S, val) ==
  IF S = {} THEN 0
  ELSE LET i == CHOOSE i \in S : TRUE IN val[i] + C19_Sum(S \ {i}, val)

\* C19: the invoice has one line per project name among the entries; the
\* line's hours are the sum, over the project's entries that have an end, of
\* (end - start) in whole seconds / 3600; a project with a rate costs
\* hours * rate, a project without one has a line with its hours and no cost;
\* the subtotal is the sum of the costs, tax_amount = subtotal * tax_rate / 100
\* and total = subtotal + tax_amount.  Two hours and one hour of ProjA at rate
\* 100 and three hours of ProjB without a rate, taxed at 10%, give 300, 30 and
\* 330 in whatever order the entries come.
C19_InvoiceAggregation ==
  invoice.result # None =>
    LET P == invoice.params
        R == invoice.result[1]
        es == P.entries
        invoiced == {es[i].project : i \in DOMAIN es}
        secs == [i \in DOMAIN es |->
                   IF es[i].end # None THEN (es[i].end[1] - es[i].start) * SecsPerUnit
                   ELSE 0]
        hours(p) == C19_Sum({i \in DOMAIN es : es[i].project = p}, secs)
        cost == [i \in DOMAIN R.lines |->
                   IF R.lines[i].cost # None THEN R.lines[i].cost[1] ELSE 0]
        is(e, p, h) == e.project = p /\ e.end = Some(e.start + h * Hour)
    IN /\ {R.lines[i].project : i \in DOMAIN R.lines} = invoiced
       /\ Len(R.lines) = Cardinality(invoiced)
       /\ \A i \in DOMAIN R.lines :
            LET l == R.lines[i]
            IN /\ l.hours = hours(l.project)
               /\ l.cost = IF l.project \in DOMAIN P.project_rates
                           THEN Some(((l.hours \div SecsPerUnit)
                                        * Money(P.project_rates[l.project]))
                                       \div Hour)
                           ELSE None
       /\ R.subtotal = C19_Sum(DOMAIN R.lines, cost)
       /\ R.tax_amount * 100 = R.subtotal * P.tax_rate
       /\ R.total = R.subtotal + R.tax_amount
       /\ ( /\ Len(es) = 3
            /\ \E i, j, k \in DOMAIN es :
                 /\ {i, j, k} = DOMAIN es
                 /\ is(es[i], <<"A">>, 2)
                 /\ is(es[j], <<"A">>, 1)
                 /\ is(es[k], <<"B">>, 3)
            /\ DOMAIN P.project_rates = {<<"A">>}
            /\ P.project_rates[<<"A">>] = 100
            /\ P.tax_rate = 10 )
          => /\ R.subtotal = Money(300)
             /\ R.tax_amount = Money(30)
             /\ R.total = Money(330)
             /\ \E i \in DOMAIN R.lines :
                  R.lines[i] = [project |-> <<"B">>, hours |-> 3 * 3600,
                                cost |-> None]

\* C19 witness: the invoice of the example, its entries handed over as ProjB,
\* ProjA 1h, ProjA 2h and ProjB written first, came to 330.
C19_ExampleInvoiced ==
  /\ invoice.result # None
  /\ Len(invoice.params.entries) = 3
  /\ invoice.params.entries[1].project = <<"B">>
  /\ invoice.params.entries[1].end = Some(3 * Hour)
  /\ invoice.params.entries[2].project = <<"A">>
  /\ invoice.params.entries[2].end = Some(Hour)
  /\ invoice.params.entries[3].project = <<"A">>
  /\ invoice.params.entries[3].end = Some(2 * Hour)
  /\ DOMAIN invoice.params.project_rates = {<<"A">>}
  /\ invoice.params.project_rates[<<"A">>] = 100
  /\ invoice.params.tax_rate = 10
  /\ invoice.result[1].lines[1].project = <<"B">>
  /\ invoice.result[1].total = Money(330)

\* C20: no stored Entry has an absent end together with billed = true,
\* whatever was started, stopped, billed and unbilled in the session and
\* billed from the command line.
C20_NoRunningEntryBilled ==
  \A e \in db_entries : ~(e.end = None /\ e.billed)

\* C21: the invoices a session generates on an initially empty history are
\* numbered 1, 2, 3, ... in order, each number max(recorded numbers) + 1, no
\* number given to two written invoices, and each written invoice recorded.
C21_InvoiceNumbersIncrease ==
  /\ \A i \in DOMAIN invoice_files : invoice_files[i] = i
  /\ {r.invoice_number : r \in db_invoices} = 1 .. Len(invoice_files)
  /\ Cardinality(db_invoices) = Len(invoice_files)

\* C21 witness: a third invoice was generated and numbered 3.
C21_ThreeInvoices ==
  /\ last = "GenerateInvoice"
  /\ invoice_files = <<1, 2, 3>>
  /\ status_message = Status("Invoice written", 3)

\* C22: when write_invoice fails, in the session or in `meter invoice`, no
\* row is inserted into table invoices, the next invoice number is what it
\* was and no file was written; the session's status is the one failure
\* message.
C22_FailedRenderRecordsNothing ==
  [][((last' = "GenerateInvoice" \/ last' = "CliInvoice")
        /\ pending' = pending /\ invoice' # invoice /\ invoice'.result = None)
       => /\ db_invoices' = db_invoices
          /\ get_next_invoice_number(db_invoices')
               = get_next_invoice_number(db_invoices)
          /\ invoice_files' = invoice_files
          /\ (last' = "GenerateInvoice"
                => status_message' = Status("Failed to write invoice", 0))]_vars

\* C22 witness: after one invoice was written and recorded, the session's
\* next generation failed to render; number 2 is still the next one.
C22_RenderFailed ==
  /\ last = "GenerateInvoice"
  /\ invoice.result = None
  /\ status_message = Status("Failed to write invoice", 0)
  /\ invoice_files = <<1>>
  /\ get_next_invoice_number(db_invoices) = 2

\* Whether two characters are the same letter in either case
C23_SameLetter(a, b) ==
  \/ a = b
  \/ \E k \in DOMAIN UpperCase :
       {a, b} = {UpperCase[k], LowerCase[k]}

\* Whether pat occurs in str, the case of letters ignored
C23_Occurs(str, pat) ==
  \E i \in 0 .. (Len(str) - Len(pat)) :
    \A k \in 1 .. Len(pat) : C23_SameLetter(str[i + k], pat[k])

\* C23: the due date is the issue date plus 30 days when the terms contain
\* "net 30" in any case, else plus 15 for "net 15", else plus 60 for
\* "net 60", else the issue date itself; "Net 30" issued on day D is due on
\* D + 30 and "Due on receipt" on D.
C23_DueDate ==
  due.result # None =>
    LET t == due.payment_terms
        offset == IF C23_Occurs(t, <<"n", "e", "t", " ", "3", "0">>) THEN 30
                  ELSE IF C23_Occurs(t, <<"n", "e", "t", " ", "1", "5">>) THEN 15
                  ELSE IF C23_Occurs(t, <<"n", "e", "t", " ", "6", "0">>) THEN 60
                  ELSE 0
    IN /\ due.result[1] = format_date(due.today + offset)
       /\ t = <<"N", "e", "t", " ", "3", "0">> => due.result[1] = format_date(due.today + 30)
       /\ t = <<"D", "u", "e", " ", "o", "n", " ", "r", "e", "c", "e", "i", "p", "t">> => due.result[1] = format_date(due.today)

\* C23 witness: "Net 30" issued on 2026-12-02 is due on 2027-01-01.
C23_Net30AcrossNewYear ==
  /\ due.payment_terms = <<"N", "e", "t", " ", "3", "0">>
  /\ format_date(due.today) = [year |-> 2026, month |-> 12, day |-> 2]
  /\ due.result = Some([year |-> 2027, month |-> 1, day |-> 1])

\* C24: a handler whose store call fails (StartTimer, StopTimer, the Tick
\* that stops the timer at work expiry, TogglePomodoroMode) sets a status
\* message that reports the failure, and leaves the mirror, the Pomodoro
\* state, the interval start, the cycle counter and the configuration as
\* they were.
C24_StoreFailureIsReported ==
  [][(pending = None /\ err'
        /\ \/ last' \in {"StartTimer", "StopTimer", "TogglePomodoroMode"}
           \/ (last' = "Tick" /\ pomodoro_state = "Working"
                 /\ pomodoro_state' = "WorkComplete"))
       => /\ status_message' # None
          /\ status_message' # status_message
          /\ UNCHANGED <<active_entry, pomodoro_state, pomodoro_interval_start,
                         pomodoro_cycles_completed, pomodoro_config>>]_vars

\* C25: an entry opened for editing and saved with its buffers untouched keeps
\* the start and end instants it had (checked under SpecEdit)
C25_EditRoundTrip ==
  [][(last' = "SaveEditEntry" /\ pending = None /\ editing_entry # None
        /\ edit_start_input = format_local(editing_entry[1].start)
        /\ edit_end_input = (IF editing_entry[1].end = None THEN <<>>
                             ELSE format_local(editing_entry[1].end[1]))
        /\ \E r \in db_entries : r.id = editing_entry[1].id)
       => \A r \in db_entries' :
            r.id = editing_entry[1].id
              => (r.start = editing_entry[1].start
                    /\ r.end = editing_entry[1].end)]_vars

\* A buffer that names no instant: it does not parse, or it names a local
\* minute that does not exist
C26_NoInstant(buf) ==
  \/ parse_from_str(buf) = None
  \/ from_local_datetime(parse_from_str(buf)[1]) = None

\* C26: a SaveEditEntry whose start or end buffer cannot be turned into an
\* instant leaves that field of the stored entry at its previous value, and
\* still stores the project, the description and the other time field
\* (checked under SpecEditTime)
C26_BadTimeFieldKeepsValue ==
  [][(last' = "SaveEditEntry" /\ pending = None /\ editing_entry # None
        /\ \E r \in db_entries : r.id = editing_entry[1].id)
       => \A r \in db_entries' :
            r.id = editing_entry[1].id
              => /\ r.project = edit_project_input
                 /\ r.description = edit_description_input
                 /\ C26_NoInstant(edit_start_input)
                      => r.start = editing_entry[1].start
                 /\ (edit_end_input # <<>> /\ C26_NoInstant(edit_end_input))
                      => r.end = editing_entry[1].end
                 /\ ~C26_NoInstant(edit_start_input)
                      => r.start = from_local_datetime(
                                     parse_from_str(edit_start_input)[1])[1]
                 /\ ~C26_NoInstant(edit_end_input)
                      => r.end = from_local_datetime(
                                   parse_from_str(edit_end_input)[1])]_vars

\* C27: with a clock that never goes back, every stored entry that has an end
\* has end >= start, whatever was started, stopped and edited
\* (checked under SpecEditTime)
C27_EndNotBeforeStart ==
  \A r \in db_entries : r.end # None => r.end[1] >= r.start

\* C28: right after a step that stores an entry under a project name (a new
\* row, or a row renamed), table projects has a row of that name
\* (checked under SpecTwo)
C28_ProjectAutoCreated ==
  [][\A r \in db_entries' :
       (~\E q \in db_entries : q.id = r.id /\ q.project = r.project)
         => \E p \in db_projects' : p.name = r.project]_vars

\* C29: SaveEditEntry and ConfirmDelete on an entry that is no longer in the
\* store report it with a status message that is not the success message, and
\* change nothing in the store (checked under SpecVanish)
C29_VanishedEntryIsReported ==
  [][(/\ pending = None
      /\ \/ /\ last' = "SaveEditEntry" /\ editing_entry # None
            /\ ~\E r \in db_entries : r.id = editing_entry[1].id
         \/ /\ last' = "ConfirmDelete" /\ confirm_delete # None
            /\ ~\E r \in db_entries : r.id = confirm_delete[1])
       => /\ status_message' # None
          /\ status_message'[1].text \notin {"Entry updated", "Entry deleted"}
          /\ UNCHANGED dbVars]_vars

\* half an hour in clock units
C30_HalfHour == Hour \div 2

\* C30: `meter add` with a duration of h half hours stores a completed entry
\* whose end - start is h half hours, the duration the command prints
\* (checked under SpecAdd)
C30_AddStoresDuration ==
  [][\A p \in {<<"A">>, <<"B">>}, h \in 0 .. MaxHalfHours :
       CliAdd(p, WorkSession, h)
         => \E r \in db_entries' \ db_entries :
              /\ r.project = p
              /\ r.end # None
              /\ r.end[1] - r.start = h * C30_HalfHour]_vars

\* C31: every change of the Pomodoro state made by a handler of update() is a
\* transition of the table: Working is entered only from Idle, WorkComplete
\* only from Working, OnBreak only from WorkComplete, BreakComplete only from
\* OnBreak (checked under SpecCycleStop)
C31_TableTransitions ==
  [][(pomodoro_state' # pomodoro_state /\ last' # "CliStop")
       => /\ pomodoro_state' = "Working" => pomodoro_state = "Idle"
          /\ pomodoro_state' = "WorkComplete" => pomodoro_state = "Working"
          /\ pomodoro_state' = "OnBreak" => pomodoro_state = "WorkComplete"
          /\ pomodoro_state' = "BreakComplete" => pomodoro_state = "OnBreak"]_vars

\* The work period of a Working session has run out
C32_WorkExpired ==
  /\ pomodoro_config.enabled
  /\ pomodoro_state = "Working"
  /\ pomodoro_interval_start # None
  /\ (now - pomodoro_interval_start[1]) * SecsPerUnit
       >= pomodoro_config.work_duration * 60

\* C32: a Tick that is not the auto-stop at work expiry leaves the store
\* unchanged and changes nothing in the session but the mirror, and, at
\* break expiry, the Pomodoro state, interval_start and the status message
\* (checked under SpecTwo)
C32_TickOnlyReads ==
  [][(last' = "Tick" /\ pending = None /\ ~C32_WorkExpired)
       => /\ UNCHANGED <<dbVars, now, menubar, invoiceVars, db_projects,
                         formVars>>
          /\ UNCHANGED <<current_screen, project_input, description_input,
                         input_mode, listVars, editVars>>
          /\ UNCHANGED <<pomodoro_config, pomodoro_cycles_completed,
                         pomodoro_last_project, pomodoro_last_description>>
          /\ \/ UNCHANGED <<pomodoro_state, pomodoro_interval_start,
                            status_message>>
             \/ /\ pomodoro_state = "OnBreak"
                /\ pomodoro_state' = "BreakComplete"
                /\ pomodoro_interval_start' = None]_vars

\* A Tick outside a work period has taken over the timer another process
\* started
C32_TickReconciled ==
  /\ last = "Tick"
  /\ pomodoro_state = "Idle"
  /\ active_entry # None
  /\ active_entry[1].project = <<"B">>

\* The Refresh messages of update()
C33_RefreshMessages ==
  {"RefreshActiveTimer", "RefreshEntries", "RefreshProjects", "RefreshClients"}

C34_IntervalStartIffTimed ==
  (pomodoro_interval_start # None) <=> (pomodoro_state \in {"Working", "OnBreak"})

\* A break is under way, its start recorded, in a store that another process
\* wrote an entry to
C34_OnBreakWithExternalEntry ==
  /\ pomodoro_state = "OnBreak"
  /\ pomodoro_interval_start # None
  /\ \E e \in db_entries : e.project = <<"B">>

\* C35: in one process on a reliable store, while the Pomodoro state is
\* WorkComplete, OnBreak or BreakComplete no entry lacks an end and the
\* mirror is empty (checked under Spec)
C35_NoTimerDuringBreak ==
  pomodoro_state \in {"WorkComplete", "OnBreak", "BreakComplete"}
    => /\ active_entry = None
       /\ \A e \in db_entries : e.end # None

\* A break has run out after a work period whose entry was stopped
C35_BreakOverTimerStopped ==
  /\ pomodoro_state = "BreakComplete"
  /\ db_entries # {}
  /\ \A e \in db_entries : e.end # None
  /\ active_entry = None

\* C36: each interval expiry requests its notification exactly once.  A Tick
\* requests notify(work_complete) exactly when it moves Working to
\* WorkComplete and notify(break_complete) exactly when it moves OnBreak to
\* BreakComplete; a Tick that finds and leaves the state WorkComplete or
\* BreakComplete requests no notification and stops no timer (the store's
\* entries are as they were); and no step other than a Tick requests one.
C36_NotifiedOncePerExpiry ==
  [][/\ (last' = "Tick" /\ pending = None)
          => /\ (notified' = Some("work_complete"))
                  <=> (pomodoro_state = "Working"
                       /\ pomodoro_state' = "WorkComplete")
             /\ (notified' = Some("break_complete"))
                  <=> (pomodoro_state = "OnBreak"
                       /\ pomodoro_state' = "BreakComplete")
             /\ (pomodoro_state \in {"WorkComplete", "BreakComplete"}
                 /\ pomodoro_state' = pomodoro_state)
                  => (notified' = None /\ db_entries' = db_entries)
     /\ ~(last' = "Tick" /\ pending = None) => notified' = notified]_vars

\* C36 witness: a further Tick in WorkComplete, after the expiry's Tick, that
\* asked for no notification and left a timer started elsewhere running
C36_QuietTickInWorkComplete ==
  /\ last = "Tick"
  /\ pomodoro_state = "WorkComplete"
  /\ notified = None
  /\ active_entry # None
  /\ \E e \in db_entries : e.end = None


\* C37: the interval of a work period that ends within the model's clock
C37_WorkCanExpire ==
  /\ pomodoro_state = "Working"
  /\ pomodoro_interval_start # None
  /\ (MaxTime - pomodoro_interval_start[1]) * SecsPerUnit
       >= pomodoro_config.work_duration * 60

\* C37: the interval of a break that ends within the model's clock
C37_BreakCanExpire ==
  /\ pomodoro_state = "OnBreak"
  /\ pomodoro_interval_start # None
  /\ (MaxTime - pomodoro_interval_start[1]) * SecsPerUnit
       >= get_current_break_duration(pomodoro_cycles_completed,
                                     pomodoro_config) * 60

\* C37: while Pomodoro is enabled every state offers the step towards
\* Working: a timed state has its interval start, so that Tick ends it when
\* the time is up; WorkComplete and BreakComplete are offered the
\* acknowledging key; Idle is offered the key that opens the project input or
\* the one that starts the timer
C37_NoDeadEnd ==
  pomodoro_config.enabled =>
    CASE pomodoro_state \in {"Working", "OnBreak"} ->
           pomodoro_interval_start # None
      [] pomodoro_state \in {"WorkComplete", "BreakComplete"} ->
           <<"AcknowledgePomodoro">> \in handle_key
      [] OTHER ->
           \/ <<"EnterInputMode", "EditingProject">> \in handle_key
           \/ <<"StartTimer">> \in handle_key

C38_InvoiceNumbersUnique ==
  /\ \A r1, r2 \in db_invoices :
       r1.invoice_number = r2.invoice_number => r1 = r2
  /\ \A p, q \in Processes :
       (p # q /\ in_flight[p].recorded = "Ok" /\ in_flight[q].recorded = "Ok")
         => in_flight[p].invoice_number # in_flight[q].invoice_number

\* C38 witness: both processes read the same number and rendered; the first
\* insert was accepted and the second rejected
C38_SecondInsertRejected ==
  /\ \E p, q \in Processes :
       /\ in_flight[p].recorded = "Ok"
       /\ in_flight[q].recorded = "Err"
       /\ in_flight[p].invoice_number = in_flight[q].invoice_number
  /\ Len(invoice_files) >= 2
  /\ Cardinality(db_invoices) = 1


\* C39: the ids of the rows a step removes from table entries
C39_Removed ==
  {e.id : e \in db_entries} \ {e.id : e \in db_entries'}

\* C39: the session deletes an entry only on ConfirmDelete, and only the id
\* named by the latest DeleteEntry that was not cancelled, consumed or
\* discarded since.  A step that removes a row is a ConfirmDelete with an id
\* pending and removes that id alone; ConfirmDelete with no id pending and
\* DeleteEntry leave the store as it is; only DeleteEntry names an id, and
\* CancelDelete, ConfirmDelete and SwitchScreen leave none pending.
C39_DeleteOnlyOnConfirm ==
  [][/\ C39_Removed # {}
          => /\ last' = "ConfirmDelete" /\ pending = None
             /\ confirm_delete # None
             /\ C39_Removed = {confirm_delete[1]}
     /\ (last' = "ConfirmDelete" /\ pending = None /\ confirm_delete = None)
          => db_entries' = db_entries
     /\ (last' = "DeleteEntry" /\ pending = None)
          => (confirm_delete' # None /\ UNCHANGED dbVars)
     /\ (confirm_delete' # None /\ confirm_delete' # confirm_delete)
          => (last' = "DeleteEntry" /\ pending = None)
     /\ (last' \in {"CancelDelete", "ConfirmDelete", "SwitchScreen"}
         /\ pending = None)
          => confirm_delete' = None]_vars

\* C39 witness: the second of two entries was confirmed and deleted, the
\* first is still in the store
C39_ConfirmedDeleteOfSecond ==
  /\ last = "ConfirmDelete"
  /\ confirm_delete = None
  /\ db_seq = 2
  /\ {e.id : e \in db_entries} = {1}


\* C40: the four numbers of a Pomodoro configuration are positive
C40_Positive(cfg) ==
  /\ cfg.work_duration > 0
  /\ cfg.short_break > 0
  /\ cfg.long_break > 0
  /\ cfg.cycles_before_long > 0

\* C40: Pomodoro settings edited in the session stay positive.  The buffers
\* of the numeric fields hold digits only, and the session's configuration
\* and the stored one keep a positive work duration, short break, long break
\* and cycle count, whatever is typed and saved.
C40_SettingsStayPositive ==
  /\ C40_Positive(pomodoro_config)
  /\ C40_Positive(db_pomodoro)
  /\ \A g \in {"WorkDuration", "ShortBreak", "LongBreak", "Cycles"} :
       \A i \in DOMAIN pomodoro_input(g) :
         is_ascii_digit(pomodoro_input(g)[i])

\* C40 witness: ten digits were typed into the long-break field, a number too
\* large for an i32, and saved; the long break kept its old value in the
\* session and in the store
C40_OverflowKeptOldValue ==
  /\ last = "SavePomodoroConfig"
  /\ Len(pomodoro_long_break_input) = MaxDigits
  /\ parse_i32(pomodoro_long_break_input) = None
  /\ pomodoro_config.long_break = DefaultPomodoroConfig.long_break
  /\ db_pomodoro.long_break = DefaultPomodoroConfig.long_break

====
